---- MODULE Spec2Model ----
(***************************************************************************)
(* A model of plugins/granola/scripts/granola.py: one invocation of the    *)
(* command-line client, from main() to process exit.                       *)
(*                                                                         *)
(* Values.  A JSON value is a record with a field k naming its kind:       *)
(*   [k |-> "null"], [k |-> "num", n |-> 1], [k |-> "str", s |-> "a"],     *)
(*   [k |-> "list", items |-> <<...>>], and an object is [k |-> "obj"]     *)
(*   with one further field per key it holds, so that a key test is a      *)
(*   DOMAIN test as `in` / dict.get are in the source.                     *)
(* Text.  The standard output of a curl call is a sequence of tokens:      *)
(*   [t |-> "ws"] whitespace, [t |-> "junk"] text that is no JSON,         *)
(*   [t |-> "bnd"] the literal -----CHUNK_BOUNDARY-----, and               *)
(*   [t |-> "json", v |-> value] the text of one JSON value.               *)
(* Outcomes.  A function of the source that may raise returns              *)
(*   [st |-> "ret", v |-> value] or [st |-> "raise", exc |-> name].        *)
(***************************************************************************)
EXTENDS Integers, Sequences, FiniteSets, TLC

VARIABLES
    pc,         \* position of the invocation in main() and its callees
    disk,       \* the credential file CRED_PATH: absent, or its document
    clock,      \* time.time() in milliseconds
    hostWrites, \* how often the desktop application has rewritten the file
    loc,        \* the local variables of the function being executed
    creds,      \* the dict load_credentials returns, as main() holds it
    reqs,       \* every curl request issued so far, in order
    result,     \* what the last subprocess.run(curl) gave back
    out,        \* standard output: what has been printed, in order
    err,        \* the diagnostic stream: what has been printed, in order
    exit,       \* "running", or the exit status "0" / "1"
    nRefresh,   \* how many times refresh_access_token has been entered
    peer        \* a second invocation, while it is not the one running: its
                \* pc, loc, creds, result, out, err, exit and nRefresh

vars == <<pc, disk, clock, hostWrites, loc, creds, reqs, result, out, err, exit, nRefresh, peer>>

\* no second invocation
NoPeer == [pc |-> "none"]

----------------------------------------------------------------------------
(* Bounds of the model. *)

\* obtained_at on disk ranges over 0, 1000, ..., MaxObtained * 1000
MaxObtained == 1
\* expires_in on disk and in the token response ranges over 0..MaxExpires
MaxExpires == 1
\* milliseconds that may pass while the token exchange is in flight
MaxDelay == 1
\* rewrites of the credential file by the desktop application
MaxHostWrites == 1
\* the payload segment of an access token holds 0..MaxPayloadLen characters
MaxPayloadLen == 8

(* Program constants. *)

\* tokens.get("expires_in", 3600), resp.get("expires_in", 3600)
DefaultExpiresIn == 3600
\* expires_at_ms = obtained_at + (expires_in * 1000)
MsPerSecond == 1000

----------------------------------------------------------------------------
(* JSON values and Python's operations on them. *)

Null == [k |-> "null"]
Num(n) == [k |-> "num", n |-> n]
Str(s) == [k |-> "str", s |-> s]
List(items) == [k |-> "list", items |-> items]
EmptyObj == [k |-> "obj"]

Ret(v) == [st |-> "ret", v |-> v]
Raise(exc) == [st |-> "raise", exc |-> exc]

\* isinstance(v, list), isinstance(v, dict), isinstance(v, str)
IsList(v) == v.k = "list"
IsDict(v) == v.k = "obj"
IsStr(v) == v.k = "str"

\* key in d, for a dict d
HasKey(d, key) == key \in DOMAIN d

\* d.get(key, default), for a dict d
DictGet(d, key, default) == IF HasKey(d, key) THEN d[key] ELSE default

\* {**d, key: v}
DictSet(d, key, v) == [x \in DOMAIN d \cup {key} |-> IF x = key THEN v ELSE d[x]]

\* bool(v): None, 0, "", [] and {} are false
Truthy(v) ==
    CASE v.k = "null" -> FALSE
      [] v.k = "num" -> v.n # 0
      [] v.k = "str" -> v.s # ""
      [] v.k = "list" -> v.items # <<>>
      [] v.k = "obj" -> DOMAIN v # {"k"}
      [] v.k = "bool" -> v.b
      [] OTHER -> TRUE

Bool(b) == [k |-> "bool", b |-> b]

\* the keys of a dict
Keys(d) == DOMAIN d \ {"k"}

RECURSIVE SetToSeq(_)
SetToSeq(S) == IF S = {} THEN <<>> ELSE LET x == CHOOSE y \in S : TRUE IN <<x>> \o SetToSeq(S \ {x})

\* the spelling of the strings the model compares or iterates: their characters
Chars(s) ==
    CASE s = "" -> <<>>
      [] s = "1" -> <<1>>
      [] s = "10" -> <<1, 0>>
      [] s = "2" -> <<2>>
      [] OTHER -> <<9>>

\* for x in v: a list gives its items, a str its characters, a dict its keys;
\* None, a number or a bool raises TypeError
Iter(v) ==
    CASE v.k = "list" -> Ret(v.items)
      [] v.k = "str" -> Ret([i \in 1..Len(Chars(v.s)) |-> Str(v.s)])
      [] v.k = "obj" -> Ret(SetToSeq({Str(key) : key \in Keys(v)}))
      [] OTHER -> Raise("TypeError")

\* len(v)
PyLen(v) ==
    CASE v.k = "list" -> Ret(Len(v.items))
      [] v.k = "str" -> Ret(Len(Chars(v.s)))
      [] v.k = "obj" -> Ret(Cardinality(Keys(v)))
      [] OTHER -> Raise("TypeError")

\* v.get(key, default): only a dict has get
Get(v, key, default) == IF IsDict(v) THEN Ret(DictGet(v, key, default)) ELSE Raise("AttributeError")

\* The results of evaluating an expression for each element in order: the
\* first exception raised, or the sequence of the values.
Collect(rs) ==
    LET bad == {i \in 1..Len(rs) : rs[i].st # "ret"}
    IN IF bad = {} THEN Ret([i \in 1..Len(rs) |-> rs[i].v])
       ELSE rs[CHOOSE i \in bad : \A j \in bad : i <= j]

----------------------------------------------------------------------------
(* Text: json.loads, str.strip, str.split on the boundary marker. *)

Ws == [t |-> "ws"]
Junk == [t |-> "junk"]
Bnd == [t |-> "bnd"]
Json(v) == [t |-> "json", v |-> v]

RECURSIVE LStrip(_)
LStrip(s) == IF s # <<>> /\ Head(s) = Ws THEN LStrip(Tail(s)) ELSE s

RECURSIVE RStrip(_)
RStrip(s) == IF s # <<>> /\ s[Len(s)] = Ws THEN RStrip(SubSeq(s, 1, Len(s) - 1)) ELSE s

\* chunk.strip()
Strip(s) == RStrip(LStrip(s))

\* json.loads(text): the text of exactly one JSON value, whitespace around it
\* allowed; anything else raises json.JSONDecodeError
JsonLoads(text) ==
    LET s == Strip(text)
    IN IF Len(s) = 1 /\ s[1].t = "json" THEN Ret(s[1].v) ELSE Raise("JSONDecodeError")

\* raw.split("-----CHUNK_BOUNDARY-----"): always at least one chunk
RECURSIVE SplitFrom(_, _, _)
SplitFrom(raw, i, cur) ==
    IF i > Len(raw) THEN <<cur>>
    ELSE IF raw[i] = Bnd THEN <<cur>> \o SplitFrom(raw, i + 1, <<>>)
    ELSE SplitFrom(raw, i + 1, Append(cur, raw[i]))

Split(raw) == SplitFrom(raw, 1, <<>>)

----------------------------------------------------------------------------
(* Bearer tokens.  An access token is its dot-delimited segments; a segment *)
(* is what base64 and JSON decoding make of it.                             *)

Hdr == [p |-> "hdr"]
Sig == [p |-> "sig"]
\* a payload whose JSON holds "iss": the issuer URL, as its "/"-separated parts
IssPayload(client) == [p |-> "iss", iss |-> <<"auth.granola.ai", "user_management", client>>]
NoIssPayload == [p |-> "noiss"]
NotJsonPayload == [p |-> "notjson"]

Jwt(id, segs) == [id |-> id, segs |-> segs]
GoodJwt(id) == Jwt(id, <<Hdr, IssPayload("client_1"), Sig>>)

\* lines 66-70: the client id from the issuer claim of the token's payload
ClientIdOf(access_token) ==
    LET segs == access_token.segs
    IN IF Len(segs) < 2 THEN Raise("IndexError")
       ELSE LET payload == segs[2]
            IN CASE payload.p = "iss" -> Ret(payload.iss[Len(payload.iss)])
                 [] payload.p = "noiss" -> Raise("KeyError")
                 [] OTHER -> Raise("JSONDecodeError")

----------------------------------------------------------------------------
(* The credential file. *)

\* json.dumps(v) / json.loads(s) of a field that holds JSON text
JsonDumps(v) == [json |-> v]
JsonLoadsField(s) == s.json

NoFile == [exists |-> FALSE]
File(doc) == [exists |-> TRUE, doc |-> doc]
\* the file as open(CRED_PATH, "w") leaves it until the document is written
EmptyFile == [exists |-> TRUE, text |-> "empty"]
\* the file after a document was written over a longer one
GarbledFile == [exists |-> TRUE, text |-> "garbled"]

\* json.load(f) succeeds: the file holds the text of one document
HoldsDocument(f) == "doc" \in DOMAIN f

ObtainedVals == {i * MsPerSecond : i \in 0..MaxObtained}
ExpiresVals == 0..MaxExpires

\* an optional key is a sequence of no or one value
Opt(S) == {<<>>} \cup {<<x>> : x \in S}

TokenDict(at, rt, oa, ei) ==
    [x \in {"access_token"}
           \cup (IF rt # <<>> THEN {"refresh_token"} ELSE {})
           \cup (IF oa # <<>> THEN {"obtained_at"} ELSE {})
           \cup (IF ei # <<>> THEN {"expires_in"} ELSE {})
       |-> CASE x = "access_token" -> at
             [] x = "refresh_token" -> rt[1]
             [] x = "obtained_at" -> oa[1]
             [] x = "expires_in" -> ei[1]]

DiskAccessTokens ==
    { GoodJwt("at1"),
      Jwt("at1", <<Hdr>>),
      Jwt("at1", <<Hdr, IssPayload("client_1")>>),
      Jwt("at1", <<Hdr, NoIssPayload, Sig>>),
      Jwt("at1", <<Hdr, NotJsonPayload, Sig>>) }

DiskTokens ==
    { TokenDict(at, rt, oa, ei) :
        at \in DiskAccessTokens, rt \in Opt({"", "r1"}),
        oa \in Opt(ObtainedVals), ei \in Opt(ExpiresVals) }

UserInfos == {"user_a", "user_b"}

Document(tokens, user) ==
    [workos_tokens |-> JsonDumps(tokens), user_info |-> JsonDumps([id |-> user, email |-> user])]

\* the instants around every expiry the file can state
ClockVals ==
    { t \in { oa + ei * MsPerSecond + d :
                oa \in ObtainedVals, ei \in ExpiresVals \cup {DefaultExpiresIn}, d \in {-1, 0, 1} } :
        t >= 0 }

----------------------------------------------------------------------------
(* Process exit. *)

Msg(m) == [m |-> m]
Traceback(exc) == [m |-> "Traceback", exc |-> exc]

\* print(..., file=sys.stderr) of each of msgs, then sys.exit(1)
Exit1(msgs) ==
    /\ pc' = "done"
    /\ exit' = "1"
    /\ err' = err \o msgs

\* an exception nothing catches: the interpreter prints the traceback and exits 1
Uncaught(exc) == Exit1(<<Traceback(exc)>>)

NoLocals == [fn |-> "main"]

----------------------------------------------------------------------------
(* subprocess.run(["curl", ...]): it completes with an exit status and its  *)
(* standard output, or raises subprocess.TimeoutExpired.                    *)

Completed(rc, stdout) == [st |-> "completed", rc |-> rc, stdout |-> stdout]
TimedOut == [st |-> "timeout"]
NoResult == [st |-> "none"]

\* curl could not connect: a non-zero status and no output
ConnectFailed == Completed(7, <<>>)

----------------------------------------------------------------------------
(* load_credentials and refresh_access_token. *)

\* IsExpired with the comparison off by one: the token counts as expired at
\* the instant it expires
IsExpiredAtBoundary(tokens, now_ms) ==
    LET obtained_at == DictGet(tokens, "obtained_at", 0)
        expires_in == DictGet(tokens, "expires_in", DefaultExpiresIn)
        expires_at_ms == obtained_at + (expires_in * MsPerSecond)
    IN now_ms >= expires_at_ms

\* lines 43-49: now_ms > obtained_at + (expires_in * 1000)
IsExpired(tokens, now_ms) ==
    LET obtained_at == DictGet(tokens, "obtained_at", 0)
        expires_in == DictGet(tokens, "expires_in", DefaultExpiresIn)
        expires_at_ms == obtained_at + (expires_in * MsPerSecond)
    IN now_ms > expires_at_ms

\* lines 31-53
LoadCredentials ==
    /\ pc = "start"
    /\ IF ~disk.exists
       THEN /\ Exit1(<<Msg("ERROR: Granola credentials not found"),
                       Msg("Make sure the Granola desktop app is installed and you are signed in.")>>)
            /\ UNCHANGED <<loc, creds, nRefresh>>
       ELSE IF ~HoldsDocument(disk)
       THEN /\ Uncaught("JSONDecodeError")
            /\ UNCHANGED <<loc, creds, nRefresh>>
       ELSE LET data == disk.doc
                tokens == JsonLoadsField(data.workos_tokens)
                now_ms == clock
            IN IF IsExpired(tokens, now_ms)
               THEN /\ err' = Append(err, Msg("Access token expired. Attempting refresh..."))
                    /\ pc' = "refresh"
                    /\ loc' = [fn |-> "refresh_access_token", tokens |-> tokens]
                    /\ nRefresh' = nRefresh + 1
                    /\ UNCHANGED <<creds, exit>>
               ELSE /\ creds' = [access_token |-> tokens.access_token]
                    /\ pc' = "get_workspace_id"
                    /\ UNCHANGED <<loc, err, exit, nRefresh>>
    /\ UNCHANGED <<disk, clock, hostWrites, peer, reqs, result, out>>

\* lines 58-59: if not refresh_token
NoRefreshToken(tokens) == ~HasKey(tokens, "refresh_token") \/ tokens.refresh_token = ""

\* lines 72-82: the body of the token-exchange request
ExchangeRequest(client_id, refresh_token) ==
    [to |-> "workos", client_id |-> client_id, grant_type |-> "refresh_token",
     refresh_token |-> refresh_token, at |-> clock]

\* RefreshStart that decodes the access token before it looks for the refresh
\* token
RefreshStartDecodeFirst ==
    /\ pc = "refresh"
    /\ LET tokens == loc.tokens
           client_id == ClientIdOf(tokens.access_token)
       IN IF client_id.st = "raise"
          THEN /\ Uncaught(client_id.exc)
               /\ UNCHANGED reqs
          ELSE IF NoRefreshToken(tokens)
          THEN /\ Exit1(<<Msg("ERROR: No refresh token available. Please sign in to the Granola app.")>>)
               /\ UNCHANGED reqs
          ELSE /\ reqs' = Append(reqs, ExchangeRequest(client_id.v, tokens.refresh_token))
               /\ pc' = "exchange_wait"
               /\ UNCHANGED <<err, exit>>
    /\ UNCHANGED <<disk, clock, hostWrites, peer, loc, creds, result, out, nRefresh>>

\* lines 56-82: up to the curl call to WORKOS_AUTH_URL
RefreshStart ==
    /\ pc = "refresh"
    /\ LET tokens == loc.tokens
           client_id == ClientIdOf(tokens.access_token)
       IN IF NoRefreshToken(tokens)
          THEN /\ Exit1(<<Msg("ERROR: No refresh token available. Please sign in to the Granola app.")>>)
               /\ UNCHANGED reqs
          ELSE IF client_id.st = "raise"
          THEN /\ Uncaught(client_id.exc)
               /\ UNCHANGED reqs
          ELSE /\ reqs' = Append(reqs, ExchangeRequest(client_id.v, tokens.refresh_token))
               /\ pc' = "exchange_wait"
               /\ UNCHANGED <<err, exit>>
    /\ UNCHANGED <<disk, clock, hostWrites, peer, loc, creds, result, out, nRefresh>>

\* refresh tokens the token endpoint may issue
IssuedRefreshTokens == {"r1", "r2"}

\* What the token endpoint answers to a request presenting refresh token sent.
\* Refresh tokens are single-use (line 89): a successful answer carries a
\* refresh token other than the one presented.
ExchangeResults(sent) ==
    { TimedOut, ConnectFailed, Completed(0, <<Junk>>),
      Completed(0, <<Json([k |-> "obj", error |-> "invalid_grant"])>>),
      Completed(0, <<Json([k |-> "obj", access_token |-> GoodJwt("at2")])>>) }
    \cup { Completed(0, <<Json([k |-> "obj", access_token |-> GoodJwt("at2"), refresh_token |-> rt])>>) :
             rt \in IssuedRefreshTokens \ {sent} }
    \cup { Completed(0, <<Json([k |-> "obj", access_token |-> GoodJwt("at2"), refresh_token |-> rt,
                                expires_in |-> ei])>>) :
             rt \in IssuedRefreshTokens \ {sent}, ei \in ExpiresVals }

\* line 82: the curl call returns or times out; time has passed meanwhile
ExchangeReturns ==
    /\ pc = "exchange_wait"
    /\ \E d \in 0..MaxDelay : clock' = clock + d
    /\ result' \in ExchangeResults(reqs[Len(reqs)].refresh_token)
    /\ pc' = "exchange_done"
    /\ UNCHANGED <<disk, hostWrites, peer, loc, creds, reqs, out, err, exit, nRefresh>>

\* NewTokens that keeps the refresh token it was given
NewTokensKeepRefresh(tokens, resp, now_ms) ==
    LET t1 == DictSet(tokens, "access_token", resp.access_token)
        t3 == DictSet(t1, "expires_in", DictGet(resp, "expires_in", DefaultExpiresIn))
    IN DictSet(t3, "obtained_at", now_ms)

\* lines 90-94
NewTokens(tokens, resp, now_ms) ==
    LET t1 == DictSet(tokens, "access_token", resp.access_token)
        t2 == DictSet(t1, "refresh_token", resp.refresh_token)
        t3 == DictSet(t2, "expires_in", DictGet(resp, "expires_in", DefaultExpiresIn))
    IN DictSet(t3, "obtained_at", now_ms)

\* RefreshResponse that tries the exchange again when the answer holds no
\* access token
RefreshResponseRetry ==
    /\ pc = "exchange_done"
    /\ IF result.st = "timeout"
       THEN Uncaught("TimeoutExpired") /\ UNCHANGED loc
       ELSE LET parsed == JsonLoads(result.stdout)
                resp == parsed.v
            IN IF parsed.st = "raise"
               THEN Uncaught(parsed.exc) /\ UNCHANGED loc
               ELSE IF ~HasKey(resp, "access_token")
               THEN pc' = "refresh" /\ UNCHANGED <<loc, err, exit>>
               ELSE IF ~HasKey(resp, "refresh_token")
               THEN Uncaught("KeyError") /\ UNCHANGED loc
               ELSE /\ loc' = [fn |-> "refresh_access_token", tokens |-> loc.tokens, resp |-> resp,
                               new_tokens |-> NewTokens(loc.tokens, resp, clock)]
                    /\ pc' = "reread"
                    /\ UNCHANGED <<err, exit>>
    /\ UNCHANGED <<disk, clock, hostWrites, peer, creds, reqs, result, out, nRefresh>>

\* RefreshResponse that stores the answer's access token before it looks for
\* the answer's refresh token
RefreshResponsePersistEarly ==
    /\ pc = "exchange_done"
    /\ IF result.st = "timeout"
       THEN Uncaught("TimeoutExpired") /\ UNCHANGED <<loc, disk>>
       ELSE LET parsed == JsonLoads(result.stdout)
                resp == parsed.v
            IN IF parsed.st = "raise"
               THEN Uncaught(parsed.exc) /\ UNCHANGED <<loc, disk>>
               ELSE IF ~HasKey(resp, "access_token")
               THEN Exit1(<<[m |-> "ERROR: Token refresh failed", resp |-> resp]>>) /\ UNCHANGED <<loc, disk>>
               ELSE IF ~HasKey(resp, "refresh_token")
               THEN /\ Uncaught("KeyError")
                    /\ disk' = File([disk.doc EXCEPT !.workos_tokens =
                                       JsonDumps(DictSet(loc.tokens, "access_token", resp.access_token))])
                    /\ UNCHANGED loc
               ELSE /\ loc' = [fn |-> "refresh_access_token", tokens |-> loc.tokens, resp |-> resp,
                               new_tokens |-> NewTokens(loc.tokens, resp, clock)]
                    /\ pc' = "reread"
                    /\ UNCHANGED <<err, exit, disk>>
    /\ UNCHANGED <<clock, hostWrites, peer, creds, reqs, result, out, nRefresh>>

\* lines 82-94: from the outcome of the curl call to the new token dict
RefreshResponse ==
    /\ pc = "exchange_done"
    /\ IF result.st = "timeout"
       THEN Uncaught("TimeoutExpired") /\ UNCHANGED loc
       ELSE LET parsed == JsonLoads(result.stdout)
                resp == parsed.v
            IN IF parsed.st = "raise"
               THEN Uncaught(parsed.exc) /\ UNCHANGED loc
               ELSE IF ~HasKey(resp, "access_token")
               THEN Exit1(<<[m |-> "ERROR: Token refresh failed", resp |-> resp]>>) /\ UNCHANGED loc
               ELSE IF ~HasKey(resp, "refresh_token")
               THEN Uncaught("KeyError") /\ UNCHANGED loc
               ELSE /\ loc' = [fn |-> "refresh_access_token", tokens |-> loc.tokens, resp |-> resp,
                               new_tokens |-> NewTokens(loc.tokens, resp, clock)]
                    /\ pc' = "reread"
                    /\ UNCHANGED <<err, exit>>
    /\ UNCHANGED <<disk, clock, hostWrites, peer, creds, reqs, result, out, nRefresh>>

\* lines 96-97: the document is read again
RereadCredentials ==
    /\ pc = "reread"
    /\ IF ~HoldsDocument(disk)
       THEN /\ Uncaught("JSONDecodeError")
            /\ UNCHANGED loc
       ELSE /\ loc' = [fn |-> "refresh_access_token", tokens |-> loc.tokens, resp |-> loc.resp,
                       new_tokens |-> loc.new_tokens, cred_data |-> disk.doc]
            /\ pc' = "write"
            /\ UNCHANGED <<err, exit>>
    /\ UNCHANGED <<disk, clock, hostWrites, peer, creds, reqs, result, out, nRefresh>>

\* PersistedDocument that writes a document of the token field alone
PersistedTokensOnly(cred_data, new_tokens) == [workos_tokens |-> JsonDumps(new_tokens)]

\* line 98: cred_data["workos_tokens"] = json.dumps(new_tokens)
PersistedDocument(cred_data, new_tokens) ==
    [cred_data EXCEPT !.workos_tokens = JsonDumps(new_tokens)]

\* WriteCredentials that hands back the access token it was given
WriteCredentialsStaleToken ==
    /\ pc = "write"
    /\ disk' = File(PersistedDocument(loc.cred_data, loc.new_tokens))
    /\ err' = Append(err, Msg("Token refreshed successfully."))
    /\ creds' = [access_token |-> loc.tokens.access_token]
    /\ loc' = NoLocals
    /\ pc' = "get_workspace_id"
    /\ UNCHANGED <<clock, hostWrites, peer, reqs, result, out, exit, nRefresh>>

\* lines 98-103 of refresh_access_token, and line 53 of its caller
WriteCredentials ==
    /\ pc = "write"
    /\ disk' = File(PersistedDocument(loc.cred_data, loc.new_tokens))
    /\ err' = Append(err, Msg("Token refreshed successfully."))
    /\ creds' = [access_token |-> loc.resp.access_token]
    /\ loc' = NoLocals
    /\ pc' = "get_workspace_id"
    /\ UNCHANGED <<clock, hostWrites, peer, reqs, result, out, exit, nRefresh>>

\* Lines 99-103 as the file system sees them.  WriteCredentials takes them at
\* once, which nothing in a single invocation can tell apart; beside a second
\* invocation the file is empty from the open to the write of the document.

\* line 99: open(CRED_PATH, "w") truncates the file
OpenCredentialsForWrite ==
    /\ pc = "write"
    /\ disk' = EmptyFile
    /\ pc' = "dump"
    /\ UNCHANGED <<clock, hostWrites, peer, loc, creds, reqs, result, out, err, exit, nRefresh>>

\* lines 100-103, and line 53 of the caller: the document is written from the
\* start of the file, which is closed.  Over a document another invocation
\* wrote since the open, the text is this document, followed by the rest of
\* the other when that one is longer.
DumpCredentials ==
    /\ pc = "dump"
    /\ disk' \in {File(PersistedDocument(loc.cred_data, loc.new_tokens))}
                 \cup (IF disk = EmptyFile THEN {} ELSE {GarbledFile})
    /\ err' = Append(err, Msg("Token refreshed successfully."))
    /\ creds' = [access_token |-> loc.resp.access_token]
    /\ loc' = NoLocals
    /\ pc' = "get_workspace_id"
    /\ UNCHANGED <<clock, hostWrites, peer, reqs, result, out, exit, nRefresh>>

\* Two invocations are two processes, each running main(); the operating
\* system may pass from one to the other between any two statements.
\* Switch that passes to the other invocation only while this one is not
\* between its load and its write of the file (the file locked)
SwitchOutsideRefresh ==
    /\ peer.exit = "running"
    /\ pc \notin {"refresh", "exchange_wait", "exchange_done", "reread", "write", "dump"}
    /\ pc' = peer.pc
    /\ loc' = peer.loc
    /\ creds' = peer.creds
    /\ result' = peer.result
    /\ out' = peer.out
    /\ err' = peer.err
    /\ exit' = peer.exit
    /\ nRefresh' = peer.nRefresh
    /\ peer' = [pc |-> pc, loc |-> loc, creds |-> creds, result |-> result, out |-> out,
                err |-> err, exit |-> exit, nRefresh |-> nRefresh]
    /\ UNCHANGED <<disk, clock, hostWrites, reqs>>

\* the other invocation runs on: it becomes the one running, this one waits
Switch ==
    /\ peer.exit = "running"
    /\ pc' = peer.pc
    /\ loc' = peer.loc
    /\ creds' = peer.creds
    /\ result' = peer.result
    /\ out' = peer.out
    /\ err' = peer.err
    /\ exit' = peer.exit
    /\ nRefresh' = peer.nRefresh
    /\ peer' = [pc |-> pc, loc |-> loc, creds |-> creds, result |-> result, out |-> out,
                err |-> err, exit |-> exit, nRefresh |-> nRefresh]
    /\ UNCHANGED <<disk, clock, hostWrites, reqs>>

\* The desktop application owns the file and may rewrite it at any time; here
\* it replaces the user-info record.
HostAppWrites ==
    /\ exit = "running"
    /\ disk.exists
    /\ hostWrites < MaxHostWrites
    /\ \E u \in UserInfos :
          /\ disk.doc.user_info # JsonDumps([id |-> u, email |-> u])
          /\ disk' = File([disk.doc EXCEPT !.user_info = JsonDumps([id |-> u, email |-> u])])
    /\ hostWrites' = hostWrites + 1
    /\ UNCHANGED <<pc, clock, peer, loc, creds, reqs, result, out, err, exit, nRefresh>>

----------------------------------------------------------------------------
(* Lines 66-70 character by character: the payload segment is padded and   *)
(* decoded.  A payload of the segments below carries, beside what its bytes *)
(* hold, the number of its characters.                                      *)

WithLen(payload, n) ==
    [x \in DOMAIN payload \cup {"len"} |-> IF x = "len" THEN n ELSE payload[x]]

\* line 67: the number of "=" appended to a segment of n characters
PadCount(n) == 4 - (n % 4)

\* line 68: base64.urlsafe_b64decode of data characters followed by pad "=":
\* it rejects a count of data characters one more than a multiple of 4 and
\* padding that does not complete the last group, and ignores padding in excess
B64Decode(data, pad) ==
    IF data % 4 = 1 THEN Raise("binascii.Error")
    ELSE IF data % 4 # 0 /\ pad < 4 - (data % 4) THEN Raise("binascii.Error")
    ELSE Ret([bytes |-> (data \div 4) * 3 + (IF data % 4 = 0 THEN 0 ELSE (data % 4) - 1)])

\* lines 56-67: the refresh token is looked for, the token split and its
\* payload segment padded
PadPayload ==
    /\ pc = "refresh"
    /\ LET tokens == loc.tokens
           segs == tokens.access_token.segs
       IN IF NoRefreshToken(tokens)
          THEN /\ Exit1(<<Msg("ERROR: No refresh token available. Please sign in to the Granola app.")>>)
               /\ UNCHANGED loc
          ELSE IF Len(segs) < 2
          THEN /\ Uncaught("IndexError")
               /\ UNCHANGED loc
          ELSE /\ loc' = [fn |-> "refresh_access_token", tokens |-> tokens,
                          payload_b64 |-> [data |-> segs[2].len, pad |-> PadCount(segs[2].len)]]
               /\ pc' = "decode"
               /\ UNCHANGED <<err, exit>>
    /\ UNCHANGED <<disk, clock, hostWrites, peer, creds, reqs, result, out, nRefresh>>

\* lines 68-82: the padded segment is decoded, the client id read from its
\* issuer and the token exchange requested
DecodePayload ==
    /\ pc = "decode"
    /\ LET tokens == loc.tokens
           decoded == B64Decode(loc.payload_b64.data, loc.payload_b64.pad)
           client_id == ClientIdOf(tokens.access_token)
       IN IF decoded.st = "raise"
          THEN /\ Uncaught(decoded.exc)
               /\ UNCHANGED reqs
          ELSE IF decoded.v.bytes = 0
          THEN /\ Uncaught("JSONDecodeError")
               /\ UNCHANGED reqs
          ELSE IF client_id.st = "raise"
          THEN /\ Uncaught(client_id.exc)
               /\ UNCHANGED reqs
          ELSE /\ reqs' = Append(reqs, ExchangeRequest(client_id.v, tokens.refresh_token))
               /\ pc' = "exchange_wait"
               /\ UNCHANGED <<err, exit>>
    /\ UNCHANGED <<disk, clock, hostWrites, peer, loc, creds, result, out, nRefresh>>

----------------------------------------------------------------------------
(* api_post, api_stream and get_workspace_id. *)

\* an outcome that ends the process: sys.exit(1) after printing msgs
Exit(msgs) == [st |-> "exit", msgs |-> msgs]

\* the process ends as outcome o says: an uncaught exception, or sys.exit(1)
Abort(o) == IF o.st = "raise" THEN Uncaught(o.exc) ELSE Exit1(o.msgs)

\* result.stdout[:500]
RawLimit == 500
\* Excerpt that prints the whole output
WholeOutput(stdout) == stdout

Excerpt(stdout) == SubSeq(stdout, 1, IF Len(stdout) < RawLimit THEN Len(stdout) ELSE RawLimit)

\* lines 118-129, 141-151: the curl request, with the headers read from creds
RequestWith(c, base, path, body) ==
    [to |-> base, path |-> path, bearer |-> c.access_token,
     ws |-> DictGet(c, "workspace_id", Str("")), body |-> body]

Request(base, path, body) == RequestWith(creds, base, path, body)

\* lines 129-136: what api_post makes of the outcome of its curl call
ApiPost(path) ==
    IF result.st = "timeout" THEN Raise("TimeoutExpired")
    ELSE LET parsed == JsonLoads(result.stdout)
         IN IF parsed.st = "ret" THEN parsed
            ELSE Exit(<<[m |-> "ERROR: Failed to parse API response", path |-> path],
                        [m |-> "Raw", raw |-> Excerpt(result.stdout)]>>)

\* line 161-163: the text of the first output of type "text" with text
RECURSIVE ScanOutputs(_, _)
ScanOutputs(outputs, i) ==
    IF i > Len(outputs) THEN [st |-> "none"]
    ELSE LET o == outputs[i]
             type == Get(o, "type", Null)
             text == Get(o, "text", Null)
         IN IF type.st = "raise" THEN type
            ELSE IF type.v = Str("text") /\ Truthy(text.v) THEN Ret(o.text)
            ELSE ScanOutputs(outputs, i + 1)

\* ChunkText that ends the scan with the empty string at a chunk json.loads
\* rejects
ChunkTextStopAtJunk(chunk) ==
    LET stripped == Strip(chunk)
        parsed == JsonLoads(stripped)
        outputs == Get(parsed.v, "outputs", List(<<>>))
        seq == Iter(outputs.v)
    IN IF stripped = <<>> THEN [st |-> "none"]
       ELSE IF parsed.st = "raise" THEN Ret(Str(""))
       ELSE IF outputs.st = "raise" THEN outputs
       ELSE IF seq.st = "raise" THEN seq
       ELSE ScanOutputs(seq.v, 1)

\* lines 156-165: one chunk gives the text to return, nothing, or an exception
\* other than json.JSONDecodeError
ChunkText(chunk) ==
    LET stripped == Strip(chunk)
        parsed == JsonLoads(stripped)
        outputs == Get(parsed.v, "outputs", List(<<>>))
        seq == Iter(outputs.v)
    IN IF stripped = <<>> THEN [st |-> "none"]
       ELSE IF parsed.st = "raise" THEN [st |-> "none"]
       ELSE IF outputs.st = "raise" THEN outputs
       ELSE IF seq.st = "raise" THEN seq
       ELSE ScanOutputs(seq.v, 1)

\* lines 155-166: for chunk in reversed(chunks)
RECURSIVE ScanChunks(_, _)
ScanChunks(chunks, i) ==
    IF i < 1 THEN Ret(Str(""))
    ELSE LET t == ChunkText(chunks[i])
         IN IF t.st = "none" THEN ScanChunks(chunks, i - 1) ELSE t

\* lines 153-166: what api_stream makes of the body raw
StreamResultOf(raw) == ScanChunks(Split(raw), Len(Split(raw)))

\* lines 151-166: what api_stream makes of the outcome of its curl call
ApiStream ==
    IF result.st = "timeout" THEN Raise("TimeoutExpired")
    ELSE LET raw == result.stdout
             chunks == Split(raw)
         IN ScanChunks(chunks, Len(chunks))

\* line 108 of get_workspace_id: the request
GetWorkspaceId ==
    /\ pc = "get_workspace_id"
    /\ reqs' = Append(reqs, Request("api", "/v1/get-workspaces", EmptyObj))
    /\ pc' = "ws_wait"
    /\ UNCHANGED <<disk, clock, hostWrites, peer, loc, creds, result, out, err, exit, nRefresh>>

\* FirstWorkspaceId that takes the last entry of the list
LastWorkspaceId(resp) ==
    LET workspaces == Get(resp, "workspaces", List(<<>>))
    IN IF workspaces.st = "raise" THEN workspaces
       ELSE IF ~Truthy(workspaces.v) THEN Exit(<<Msg("ERROR: No workspaces found.")>>)
       ELSE IF ~IsList(workspaces.v) THEN Raise("KeyError")
       ELSE LET w == workspaces.v.items[Len(workspaces.v.items)]
            IN IF ~IsDict(w) THEN Raise("TypeError")
               ELSE IF ~HasKey(w, "workspace") THEN Raise("KeyError")
               ELSE IF ~IsDict(w.workspace) THEN Raise("TypeError")
               ELSE IF ~HasKey(w.workspace, "workspace_id") THEN Raise("KeyError")
               ELSE Ret(w.workspace.workspace_id)

\* lines 109-113: the id of the first workspace
FirstWorkspaceId(resp) ==
    LET workspaces == Get(resp, "workspaces", List(<<>>))
    IN IF workspaces.st = "raise" THEN workspaces
       ELSE IF ~Truthy(workspaces.v) THEN Exit(<<Msg("ERROR: No workspaces found.")>>)
       ELSE IF ~IsList(workspaces.v) THEN Raise("KeyError")
       ELSE LET w == workspaces.v.items[1]
            IN IF ~IsDict(w) THEN Raise("TypeError")
               ELSE IF ~HasKey(w, "workspace") THEN Raise("KeyError")
               ELSE IF ~IsDict(w.workspace) THEN Raise("TypeError")
               ELSE IF ~HasKey(w.workspace, "workspace_id") THEN Raise("KeyError")
               ELSE Ret(w.workspace.workspace_id)

\* WorkspaceResolved that issues the request again when the call timed out
WorkspaceResolvedRetry ==
    /\ pc = "ws_done"
    /\ LET resp == ApiPost("/v1/get-workspaces")
           id == FirstWorkspaceId(resp.v)
       IN IF result.st = "timeout"
          THEN pc' = "get_workspace_id" /\ UNCHANGED <<creds, err, exit>>
          ELSE IF resp.st # "ret" THEN Abort(resp) /\ UNCHANGED creds
          ELSE IF id.st # "ret" THEN Abort(id) /\ UNCHANGED creds
          ELSE /\ creds' = DictSet(creds, "workspace_id", id.v)
               /\ pc' = "dispatch"
               /\ UNCHANGED <<err, exit>>
    /\ UNCHANGED <<disk, clock, hostWrites, peer, loc, reqs, result, out, nRefresh>>

\* lines 108-113 and 405: creds["workspace_id"] = get_workspace_id(creds)
WorkspaceResolved ==
    /\ pc = "ws_done"
    /\ LET resp == ApiPost("/v1/get-workspaces")
           id == FirstWorkspaceId(resp.v)
       IN IF resp.st # "ret" THEN Abort(resp) /\ UNCHANGED creds
          ELSE IF id.st # "ret" THEN Abort(id) /\ UNCHANGED creds
          ELSE /\ creds' = DictSet(creds, "workspace_id", id.v)
               /\ pc' = "dispatch"
               /\ UNCHANGED <<err, exit>>
    /\ UNCHANGED <<disk, clock, hostWrites, peer, loc, reqs, result, out, nRefresh>>

----------------------------------------------------------------------------
(* The commands.  Each starts at "dispatch" (lines 407-420 of main) with    *)
(* its arguments, and runs to its first curl call.                          *)

FolderIds == {"f1", "f2"}
DocIds == {"d1"}

\* v[key]
Index(v, key) ==
    IF ~IsDict(v) THEN Raise("TypeError")
    ELSE IF ~HasKey(v, key) THEN Raise("KeyError")
    ELSE Ret(v[key])

\* v[key1][key2]
Index2(v, key1, key2) ==
    LET inner == Index(v, key1)
    IN IF inner.st = "raise" THEN inner ELSE Index(inner.v, key2)

\* the command is over: it has printed its result
Finish(printed) ==
    /\ out' = out \o printed
    /\ pc' = "done"
    /\ exit' = "0"
    /\ UNCHANGED err

\* an exception after some lines were printed
PrintThenAbort(printed, o) ==
    /\ out' = out \o printed
    /\ Abort(o)

\* lines 172-178 of cmd_auth
CmdAuthStart ==
    /\ pc = "dispatch"
    /\ loc' = [fn |-> "cmd_auth", user_info |-> JsonLoadsField(disk.doc.user_info)]
    /\ reqs' = Append(reqs, Request("api", "/v1/get-workspaces", EmptyObj))
    /\ pc' = "auth_wait"
    /\ UNCHANGED <<disk, clock, hostWrites, peer, creds, result, out, err, exit, nRefresh>>

\* lines 186-192: one entry of the "workspaces" list cmd_auth prints
AuthWorkspaceRow(w) ==
    LET fields == Collect(<<Index2(w, "workspace", "workspace_id"),
                            Index2(w, "workspace", "display_name"),
                            Index2(w, "workspace", "slug"),
                            Index(w, "role"), Index(w, "plan_type")>>)
    IN IF fields.st = "raise" THEN fields
       ELSE Ret([id |-> fields.v[1], name |-> fields.v[2], slug |-> fields.v[3],
                 role |-> fields.v[4], plan |-> fields.v[5]])

\* lines 179-195: what cmd_auth prints for the response ws
AuthOutput(ws, user_info) ==
    LET workspaces == Get(ws, "workspaces", List(<<>>))
        seq == Iter(workspaces.v)
        rows == Collect([i \in 1..Len(seq.v) |-> AuthWorkspaceRow(seq.v[i])])
    IN IF workspaces.st = "raise" THEN workspaces
       ELSE IF seq.st = "raise" THEN seq
       ELSE IF rows.st = "raise" THEN rows
       ELSE Ret([status |-> "authenticated", email |-> user_info.email,
                 user_id |-> user_info.id, workspaces |-> rows.v])

\* lines 178-195 of cmd_auth
CmdAuthFinish ==
    /\ pc = "auth_done"
    /\ LET ws == ApiPost("/v1/get-workspaces")
           printed == AuthOutput(ws.v, loc.user_info)
       IN IF ws.st # "ret" THEN Abort(ws) /\ UNCHANGED out
          ELSE IF printed.st # "ret" THEN Abort(printed) /\ UNCHANGED out
          ELSE Finish(<<printed.v>>)
    /\ UNCHANGED <<disk, clock, hostWrites, peer, loc, creds, reqs, result, nRefresh>>

\* line 200 of cmd_workspaces
CmdWorkspacesStart ==
    /\ pc = "dispatch"
    /\ loc' = [fn |-> "cmd_workspaces"]
    /\ reqs' = Append(reqs, Request("api", "/v1/get-workspaces", EmptyObj))
    /\ pc' = "workspaces_wait"
    /\ UNCHANGED <<disk, clock, hostWrites, peer, creds, result, out, err, exit, nRefresh>>

\* lines 202-203: the line cmd_workspaces prints for one workspace
WorkspaceLine(w) ==
    LET info == Index(w, "workspace")
        fields == Collect(<<Index(info.v, "workspace_id"), Index(info.v, "display_name"),
                            Index(info.v, "slug"), Index(w, "plan_type")>>)
    IN IF info.st = "raise" THEN info
       ELSE IF fields.st = "raise" THEN fields
       ELSE Ret([id |-> fields.v[1], name |-> fields.v[2], slug |-> fields.v[3],
                 plan |-> fields.v[4]])

\* the longest prefix of outcomes that are all values
RECURSIVE ValuesBefore(_)
ValuesBefore(rs) ==
    IF rs = <<>> \/ Head(rs).st # "ret" THEN <<>> ELSE <<Head(rs).v>> \o ValuesBefore(Tail(rs))

\* lines 200-203 of cmd_workspaces: one print per workspace
CmdWorkspacesFinish ==
    /\ pc = "workspaces_done"
    /\ LET ws == ApiPost("/v1/get-workspaces")
           workspaces == Get(ws.v, "workspaces", List(<<>>))
           seq == Iter(workspaces.v)
           lines == [i \in 1..Len(seq.v) |-> WorkspaceLine(seq.v[i])]
           all == Collect(lines)
       IN IF ws.st # "ret" THEN Abort(ws) /\ UNCHANGED out
          ELSE IF workspaces.st # "ret" THEN Abort(workspaces) /\ UNCHANGED out
          ELSE IF seq.st # "ret" THEN Abort(seq) /\ UNCHANGED out
          ELSE IF all.st # "ret" THEN PrintThenAbort(ValuesBefore(lines), all)
          ELSE Finish(all.v)
    /\ UNCHANGED <<disk, clock, hostWrites, peer, loc, creds, reqs, result, nRefresh>>

----------------------------------------------------------------------------
(* Response normalization, one definition per call site. *)

\* lines 210-215 of cmd_folders
FoldersOfFolders(resp) ==
    IF IsList(resp) THEN Ret(resp)
    ELSE IF IsDict(resp) THEN Ret(DictGet(resp, "document_lists", DictGet(resp, "lists", List(<<>>))))
    ELSE Ret(List(<<>>))

\* FoldersOfDocs that knows the key "document_lists" alone
FoldersOfDocsOneKey(resp) ==
    IF IsList(resp) THEN Ret(resp)
    ELSE IF ~IsDict(resp) THEN Raise("AttributeError")
    ELSE Ret(DictGet(resp, "document_lists", List(<<>>)))

\* line 238 of cmd_docs
FoldersOfDocs(resp) ==
    IF IsList(resp) THEN Ret(resp)
    ELSE IF ~IsDict(resp) THEN Raise("AttributeError")
    ELSE Ret(DictGet(resp, "document_lists", DictGet(resp, "lists", List(<<>>))))

\* line 320 of cmd_chat
FoldersOfChat(resp) ==
    IF IsList(resp) THEN Ret(resp)
    ELSE IF ~IsDict(resp) THEN Raise("AttributeError")
    ELSE Ret(DictGet(resp, "document_lists", DictGet(resp, "lists", List(<<>>))))

\* line 258 of cmd_docs: batch.get is called whatever batch is
DocumentsOfDocs(batch) ==
    LET whole == IF IsList(batch) THEN batch ELSE List(<<>>)
    IN IF ~IsDict(batch) THEN Raise("AttributeError")
       ELSE Ret(DictGet(batch, "documents", DictGet(batch, "docs", whole)))

\* line 281 of cmd_recent: resp.get is called whatever resp is
DocumentsOfRecent(resp) ==
    LET whole == IF IsList(resp) THEN resp ELSE List(<<>>)
    IN IF ~IsDict(resp) THEN Raise("AttributeError")
       ELSE Ret(DictGet(resp, "docs", DictGet(resp, "documents", whole)))

\* line 297 of cmd_transcript
EntriesOfTranscript(resp) ==
    IF IsList(resp) THEN Ret(resp)
    ELSE IF ~IsDict(resp) THEN Raise("AttributeError")
    ELSE Ret(DictGet(resp, "transcript", DictGet(resp, "entries", List(<<>>))))

----------------------------------------------------------------------------
(* cmd_folders *)

\* line 208
CmdFoldersStart ==
    /\ pc = "dispatch"
    /\ loc' = [fn |-> "cmd_folders"]
    /\ reqs' = Append(reqs, Request("api", "/v2/get-document-lists", EmptyObj))
    /\ pc' = "folders_wait"
    /\ UNCHANGED <<disk, clock, hostWrites, peer, creds, result, out, err, exit, nRefresh>>

\* lines 219-229: the entry cmd_folders prints for one folder
FolderRow(folder) ==
    LET doc_ids == DictGet(folder, "document_ids", DictGet(folder, "documents", List(<<>>)))
        doc_count == PyLen(doc_ids)
    IN IF ~IsDict(folder) THEN Raise("AttributeError")
       ELSE IF doc_count.st = "raise" THEN doc_count
       ELSE Ret([id |-> DictGet(folder, "id", Str("")),
                 name |-> DictGet(folder, "name", DictGet(folder, "title", Str("untitled"))),
                 document_count |-> doc_count.v,
                 is_favourite |-> DictGet(folder, "is_favourite", Bool(FALSE))])

\* lines 217-231: what cmd_folders prints for the normalized folders
FoldersOutput(folders) ==
    LET seq == Iter(folders)
    IN IF seq.st = "raise" THEN seq
       ELSE Collect([i \in 1..Len(seq.v) |-> FolderRow(seq.v[i])])

\* lines 208-231
CmdFoldersFinish ==
    /\ pc = "folders_done"
    /\ LET resp == ApiPost("/v2/get-document-lists")
           folders == FoldersOfFolders(resp.v)
           output == FoldersOutput(folders.v)
       IN IF resp.st # "ret" THEN Abort(resp) /\ UNCHANGED <<loc, out>>
          ELSE /\ loc' = DictSet(loc, "folders", folders.v)
               /\ IF output.st # "ret" THEN Abort(output) /\ UNCHANGED out
                  ELSE Finish(<<[cmd |-> "folders", output |-> output.v]>>)
    /\ UNCHANGED <<disk, clock, hostWrites, peer, creds, reqs, result, nRefresh>>

----------------------------------------------------------------------------
(* Folder lookup, shared in shape by cmd_docs and cmd_chat. *)

\* DocIdsOf that takes every entry as the id, as if all were plain strings
DocIdsAsGiven(folder) ==
    LET raw_ids == DictGet(folder, "document_ids", DictGet(folder, "documents", List(<<>>)))
        seq == Iter(raw_ids)
    IN IF seq.st = "raise" THEN seq
       ELSE Collect([i \in 1..Len(seq.v) |-> Ret(seq.v[i])])

\* lines 245-246, 323-324: the ids of the folder's documents
DocIdsOf(folder) ==
    LET raw_ids == DictGet(folder, "document_ids", DictGet(folder, "documents", List(<<>>)))
        seq == Iter(raw_ids)
    IN IF seq.st = "raise" THEN seq
       ELSE Collect([i \in 1..Len(seq.v) |->
                       IF IsStr(seq.v[i]) THEN Ret(seq.v[i]) ELSE Get(seq.v[i], "id", Str(""))])

\* lines 242-247, 321-325: the first folder whose id is folder_id, if any
RECURSIVE FindFolder(_, _, _)
FindFolder(folders, i, folder_id) ==
    IF i > Len(folders) THEN Ret([found |-> FALSE])
    ELSE LET id == Get(folders[i], "id", Null)
         IN IF id.st = "raise" THEN id
            ELSE IF id.v = Str(folder_id) THEN Ret([found |-> TRUE, folder |-> folders[i]])
            ELSE FindFolder(folders, i + 1, folder_id)

NotFoundOrEmpty(folder_id) == Exit(<<[m |-> "ERROR: Folder not found or empty.", folder_id |-> folder_id]>>)

\* lines 240-251 of cmd_docs, given the normalized folders
DocsLookup(folders, folder_id) ==
    LET seq == Iter(folders)
        hit == FindFolder(seq.v, 1, folder_id)
        ids == DocIdsOf(hit.v.folder)
    IN IF seq.st = "raise" THEN seq
       ELSE IF hit.st = "raise" THEN hit
       ELSE IF ~hit.v.found THEN NotFoundOrEmpty(folder_id)
       ELSE IF ids.st = "raise" THEN ids
       ELSE IF ids.v = <<>> THEN NotFoundOrEmpty(folder_id)
       ELSE Ret([doc_ids |-> ids.v,
                 folder_name |-> DictGet(hit.v.folder, "name", DictGet(hit.v.folder, "title", Str("")))])

\* lines 321-328 of cmd_chat, given the normalized folders
ChatLookup(folders, folder_id) ==
    LET seq == Iter(folders)
        hit == FindFolder(seq.v, 1, folder_id)
        ids == DocIdsOf(hit.v.folder)
    IN IF seq.st = "raise" THEN seq
       ELSE IF hit.st = "raise" THEN hit
       ELSE IF ~hit.v.found THEN NotFoundOrEmpty(folder_id)
       ELSE IF ids.st = "raise" THEN ids
       ELSE IF ids.v = <<>> THEN NotFoundOrEmpty(folder_id)
       ELSE Ret([doc_ids |-> ids.v])

----------------------------------------------------------------------------
(* cmd_docs *)

\* line 237
CmdDocsStart ==
    /\ pc = "dispatch"
    /\ \E folder_id \in FolderIds : loc' = [fn |-> "cmd_docs", folder_id |-> folder_id]
    /\ reqs' = Append(reqs, Request("api", "/v2/get-document-lists", EmptyObj))
    /\ pc' = "docs_lists_wait"
    /\ UNCHANGED <<disk, clock, hostWrites, peer, creds, result, out, err, exit, nRefresh>>

\* lines 237-257: the folder is looked up and the batch request issued
CmdDocsLists ==
    /\ pc = "docs_lists_done"
    /\ LET resp == ApiPost("/v2/get-document-lists")
           folders == FoldersOfDocs(resp.v)
           hit == DocsLookup(folders.v, loc.folder_id)
       IN IF resp.st # "ret" THEN Abort(resp) /\ UNCHANGED <<loc, reqs>>
          ELSE IF folders.st # "ret" THEN Abort(folders) /\ UNCHANGED <<loc, reqs>>
          ELSE IF hit.st # "ret"
          THEN Abort(hit) /\ loc' = DictSet(loc, "folders", folders.v) /\ UNCHANGED reqs
          ELSE /\ loc' = [fn |-> "cmd_docs", folder_id |-> loc.folder_id, folders |-> folders.v,
                          folder_name |-> hit.v.folder_name, doc_ids |-> hit.v.doc_ids]
               /\ reqs' = Append(reqs, Request("api", "/v1/get-documents-batch",
                                               [k |-> "obj", document_ids |-> hit.v.doc_ids,
                                                include_last_viewed_panel |-> FALSE]))
               /\ pc' = "docs_batch_wait"
               /\ UNCHANGED <<err, exit>>
    /\ UNCHANGED <<disk, clock, hostWrites, peer, creds, result, out, nRefresh>>

\* lines 262-267: the entry cmd_docs prints for one document
DocRow(doc) ==
    IF ~IsDict(doc) THEN Raise("AttributeError")
    ELSE Ret([id |-> DictGet(doc, "id", Null),
              title |-> DictGet(doc, "title", Str("untitled")),
              created_at |-> DictGet(doc, "created_at", Str("")),
              updated_at |-> DictGet(doc, "updated_at", Str(""))])

\* a < b for two strings, as sequences of characters
RECURSIVE LexLess(_, _)
LexLess(a, b) ==
    IF b = <<>> THEN FALSE
    ELSE IF a = <<>> THEN TRUE
    ELSE IF Head(a) # Head(b) THEN Head(a) < Head(b)
    ELSE LexLess(Tail(a), Tail(b))

\* KeyLess that also holds of equal keys: a <= b
KeyNotGreater(a, b) ==
    IF IsStr(a) THEN a = b \/ LexLess(Chars(a.s), Chars(b.s)) ELSE a.n <= b.n

\* a < b for two sort keys of the same type
KeyLess(a, b) == IF IsStr(a) THEN LexLess(Chars(a.s), Chars(b.s)) ELSE a.n < b.n

\* x goes after every entry whose key is not greater than its own
RECURSIVE InsertByCreatedAt(_, _)
InsertByCreatedAt(sorted, x) ==
    IF sorted = <<>> THEN <<x>>
    ELSE IF KeyLess(x.created_at, Head(sorted).created_at) THEN <<x>> \o sorted
    ELSE <<Head(sorted)>> \o InsertByCreatedAt(Tail(sorted), x)

RECURSIVE StableSort(_)
StableSort(rows) ==
    IF rows = <<>> THEN <<>>
    ELSE InsertByCreatedAt(StableSort(SubSeq(rows, 1, Len(rows) - 1)), rows[Len(rows)])

\* line 270: list.sort(key=created_at), stable; keys of different types, or
\* keys that have no order, raise TypeError as soon as two are compared
SortByCreatedAt(rows) ==
    IF Len(rows) < 2 THEN Ret(rows)
    ELSE IF \A i \in 1..Len(rows) : rows[i].created_at.k = "str" THEN Ret(StableSort(rows))
    ELSE IF \A i \in 1..Len(rows) : rows[i].created_at.k = "num" THEN Ret(StableSort(rows))
    ELSE Raise("TypeError")

\* lines 260-271: what cmd_docs prints for the normalized docs
DocsOutput(docs, folder_name, folder_id) ==
    LET seq == Iter(docs)
        rows == Collect([i \in 1..Len(seq.v) |-> DocRow(seq.v[i])])
        sorted == SortByCreatedAt(rows.v)
    IN IF seq.st = "raise" THEN seq
       ELSE IF rows.st = "raise" THEN rows
       ELSE IF sorted.st = "raise" THEN sorted
       ELSE Ret([folder |-> folder_name, folder_id |-> folder_id, documents |-> sorted.v])

\* lines 254-271
CmdDocsBatch ==
    /\ pc = "docs_batch_done"
    /\ LET batch == ApiPost("/v1/get-documents-batch")
           docs == DocumentsOfDocs(batch.v)
           output == DocsOutput(docs.v, loc.folder_name, loc.folder_id)
       IN IF batch.st # "ret" THEN Abort(batch) /\ UNCHANGED <<loc, out>>
          ELSE IF docs.st # "ret" THEN Abort(docs) /\ UNCHANGED <<loc, out>>
          ELSE /\ loc' = DictSet(loc, "docs", docs.v)
               /\ IF output.st # "ret" THEN Abort(output) /\ UNCHANGED out
                  ELSE Finish(<<[cmd |-> "docs", output |-> output.v]>>)
    /\ UNCHANGED <<disk, clock, hostWrites, peer, creds, reqs, result, nRefresh>>

----------------------------------------------------------------------------
(* cmd_recent *)

\* the default of the optional argument limit (line 391)
DefaultLimit == 20

\* lines 276-280
CmdRecentStart ==
    /\ pc = "dispatch"
    /\ loc' = [fn |-> "cmd_recent", limit |-> DefaultLimit]
    /\ reqs' = Append(reqs, Request("api", "/v2/get-documents",
                                    [k |-> "obj", limit |-> DefaultLimit, offset |-> 0,
                                     include_last_viewed_panel |-> FALSE]))
    /\ pc' = "recent_wait"
    /\ UNCHANGED <<disk, clock, hostWrites, peer, creds, result, out, err, exit, nRefresh>>

\* lines 285-289: the entry cmd_recent prints for one document
RecentRow(doc) ==
    IF ~IsDict(doc) THEN Raise("AttributeError")
    ELSE Ret([id |-> DictGet(doc, "id", Null),
              title |-> DictGet(doc, "title", Str("untitled")),
              created_at |-> DictGet(doc, "created_at", Str(""))])

\* lines 283-290: what cmd_recent prints for the normalized docs
RecentOutput(docs) ==
    LET seq == Iter(docs)
    IN IF seq.st = "raise" THEN seq
       ELSE Collect([i \in 1..Len(seq.v) |-> RecentRow(seq.v[i])])

\* lines 276-290
CmdRecentFinish ==
    /\ pc = "recent_done"
    /\ LET resp == ApiPost("/v2/get-documents")
           docs == DocumentsOfRecent(resp.v)
           output == RecentOutput(docs.v)
       IN IF resp.st # "ret" THEN Abort(resp) /\ UNCHANGED <<loc, out>>
          ELSE IF docs.st # "ret" THEN Abort(docs) /\ UNCHANGED <<loc, out>>
          ELSE /\ loc' = DictSet(loc, "docs", docs.v)
               /\ IF output.st # "ret" THEN Abort(output) /\ UNCHANGED out
                  ELSE Finish(<<[cmd |-> "recent", output |-> output.v]>>)
    /\ UNCHANGED <<disk, clock, hostWrites, peer, creds, reqs, result, nRefresh>>

----------------------------------------------------------------------------
(* cmd_transcript *)

\* line 295
CmdTranscriptStart ==
    /\ pc = "dispatch"
    /\ \E doc_id \in DocIds :
          /\ loc' = [fn |-> "cmd_transcript", doc_id |-> doc_id]
          /\ reqs' = Append(reqs, Request("api", "/v1/get-document-transcript",
                                          [k |-> "obj", document_id |-> doc_id]))
    /\ pc' = "transcript_wait"
    /\ UNCHANGED <<disk, clock, hostWrites, peer, creds, result, out, err, exit, nRefresh>>

\* lines 301-307: the line cmd_transcript prints for one entry
TranscriptLine(entry) ==
    LET start == DictGet(entry, "start_timestamp", Str(""))
        end == DictGet(entry, "end_timestamp", Str(""))
    IN IF ~IsDict(entry) THEN Raise("AttributeError")
       ELSE Ret([source |-> DictGet(entry, "source", DictGet(entry, "speaker", Str("Unknown"))),
                 text |-> DictGet(entry, "text", DictGet(entry, "content", Str(""))),
                 ts |-> IF Truthy(start) /\ Truthy(end) THEN <<start, end>>
                        ELSE IF Truthy(start) THEN <<start>> ELSE <<>>])

\* lines 299-309: what cmd_transcript prints for the normalized entries
TranscriptOutput(entries) ==
    LET seq == Iter(entries)
    IN IF seq.st = "raise" THEN seq
       ELSE Collect([i \in 1..Len(seq.v) |-> TranscriptLine(seq.v[i])])

\* lines 295-309
CmdTranscriptFinish ==
    /\ pc = "transcript_done"
    /\ LET resp == ApiPost("/v1/get-document-transcript")
           entries == EntriesOfTranscript(resp.v)
           lines == TranscriptOutput(entries.v)
       IN IF resp.st # "ret" THEN Abort(resp) /\ UNCHANGED <<loc, out>>
          ELSE IF entries.st # "ret" THEN Abort(entries) /\ UNCHANGED <<loc, out>>
          ELSE /\ loc' = DictSet(loc, "entries", entries.v)
               /\ IF lines.st # "ret" THEN Abort(lines) /\ UNCHANGED out
                  ELSE Finish(<<[cmd |-> "transcript", lines |-> lines.v]>>)
    /\ UNCHANGED <<disk, clock, hostWrites, peer, creds, reqs, result, nRefresh>>

----------------------------------------------------------------------------
(* cmd_chat *)

\* lines 333-366: the body of the chat request
ChatBody(doc_ids, folder_id) ==
    [k |-> "obj",
     view_context |-> IF Len(doc_ids) = 1
                      THEN [view |-> "meeting", meetingId |-> doc_ids[1]]
                      ELSE [view |-> "folder", folderId |-> folder_id],
     document_ids |-> doc_ids, chat_context |-> "meeting",
     num_total_documents |-> Len(doc_ids)]

\* lines 316-317 and 333-368: chat --doc
CmdChatDoc ==
    /\ pc = "dispatch"
    /\ \E doc_id \in DocIds :
          /\ loc' = [fn |-> "cmd_chat", doc_id |-> doc_id, doc_ids |-> <<Str(doc_id)>>]
          /\ reqs' = Append(reqs, Request("stream", "/v1/chat-with-documents-web",
                                          ChatBody(<<Str(doc_id)>>, "")))
    /\ pc' = "chat_stream_wait"
    /\ UNCHANGED <<disk, clock, hostWrites, peer, creds, result, out, err, exit, nRefresh>>

\* lines 316-331: neither --doc nor --folder holds a non-empty value
CmdChatNoTarget ==
    /\ pc = "dispatch"
    /\ loc' = [fn |-> "cmd_chat", doc_id |-> ""]
    /\ Exit1(<<Msg("ERROR: Must specify --doc or --folder")>>)
    /\ UNCHANGED <<disk, clock, hostWrites, peer, creds, reqs, result, out, nRefresh>>

\* lines 318-319: chat --folder
CmdChatFolder ==
    /\ pc = "dispatch"
    /\ \E folder_id \in FolderIds : loc' = [fn |-> "cmd_chat", folder_id |-> folder_id]
    /\ reqs' = Append(reqs, Request("api", "/v2/get-document-lists", EmptyObj))
    /\ pc' = "chat_lists_wait"
    /\ UNCHANGED <<disk, clock, hostWrites, peer, creds, result, out, err, exit, nRefresh>>

\* lines 319-368: the folder is looked up and the chat request issued
CmdChatLists ==
    /\ pc = "chat_lists_done"
    /\ LET resp == ApiPost("/v2/get-document-lists")
           folders == FoldersOfChat(resp.v)
           hit == ChatLookup(folders.v, loc.folder_id)
       IN IF resp.st # "ret" THEN Abort(resp) /\ UNCHANGED <<loc, reqs>>
          ELSE IF folders.st # "ret" THEN Abort(folders) /\ UNCHANGED <<loc, reqs>>
          ELSE IF hit.st # "ret"
          THEN Abort(hit) /\ loc' = DictSet(loc, "folders", folders.v) /\ UNCHANGED reqs
          ELSE /\ loc' = [fn |-> "cmd_chat", folder_id |-> loc.folder_id, folders |-> folders.v,
                          doc_ids |-> hit.v.doc_ids]
               /\ reqs' = Append(reqs, Request("stream", "/v1/chat-with-documents-web",
                                               ChatBody(hit.v.doc_ids, loc.folder_id)))
               /\ pc' = "chat_stream_wait"
               /\ UNCHANGED <<err, exit>>
    /\ UNCHANGED <<disk, clock, hostWrites, peer, creds, result, out, nRefresh>>

\* lines 368-373
CmdChatFinish ==
    /\ pc = "chat_stream_done"
    /\ LET text == ApiStream
       IN IF text.st # "ret" THEN Abort(text) /\ UNCHANGED <<loc, out>>
          ELSE /\ loc' = DictSet(loc, "text", text.v)
               /\ IF Truthy(text.v) THEN Finish(<<[cmd |-> "chat", text |-> text.v]>>)
                  ELSE Exit1(<<Msg("ERROR: No response received from chat API.")>>) /\ UNCHANGED out
    /\ UNCHANGED <<disk, clock, hostWrites, peer, creds, reqs, result, nRefresh>>

----------------------------------------------------------------------------
(* The service: what a curl call to each endpoint may give back. *)

\* curl succeeded and printed the JSON text of v
Body(v) == Completed(0, <<Json(v)>>)

Obj1(key, v) == [x \in {"k", key} |-> IF x = "k" THEN "obj" ELSE v]

SeqsUpTo(S, n) == UNION {[1..m -> S] : m \in 0..n}

Workspace(id) ==
    [k |-> "obj",
     workspace |-> [k |-> "obj", workspace_id |-> Str(id), display_name |-> Str(id), slug |-> Str(id)],
     role |-> Str("admin"), plan_type |-> Str("free")]

\* a workspace record without the fields cmd_auth and cmd_workspaces index
BareWorkspace(id) == [k |-> "obj", workspace |-> [k |-> "obj", workspace_id |-> Str(id)]]

WorkspacesResponses ==
    { TimedOut, ConnectFailed,
      Body(Obj1("workspaces", List(<<Workspace("w1")>>))),
      Body(Obj1("workspaces", List(<<Workspace("w2"), Workspace("w1")>>))),
      Body(Obj1("workspaces", List(<<Workspace("w1"), BareWorkspace("w3")>>))),
      Body(Obj1("workspaces", List(<<>>))),
      Body(EmptyObj), Body(Null) }

Folder(id, ids) == [k |-> "obj", id |-> Str(id), name |-> Str(id), document_ids |-> List(ids)]
\* a folder that names its documents under "documents", and itself under "title"
AltFolder(id, ids) == [k |-> "obj", id |-> Str(id), title |-> Str(id), documents |-> List(ids)]
DocRef(id) == [k |-> "obj", id |-> Str(id)]

FolderPool ==
    { Folder("f1", <<Str("d1"), Str("d2")>>), Folder("f2", <<DocRef("d1"), DocRef("d2")>>),
      Folder("f1", <<>>), AltFolder("f2", <<Str("d1")>>) }

Doc(id, created_at) == [k |-> "obj", id |-> Str(id), title |-> Str(id), created_at |-> Str(created_at)]

DocPool == { Doc("d1", "2"), Doc("d2", "10"), Doc("d3", "2"), [k |-> "obj", id |-> Str("d4")] }

Entry(source, text) == [k |-> "obj", source |-> Str(source), text |-> Str(text)]

EntryPool ==
    { Entry("me", "hello"),
      [k |-> "obj", speaker |-> Str("you"), content |-> Str("hi"), start_timestamp |-> Str("1")] }

\* a response that is neither a sequence nor an object
Scalars == { Null, Num(1), Str("x"), Bool(TRUE) }

\* The shapes a collection S arrives in: bare, or under one of two keys; and
\* the responses in which none of these applies.
Shapes(S, keyA, keyB) == { List(S), Obj1(keyA, List(S)), Obj1(keyB, List(S)) }
Shapeless(S) == { EmptyObj, Obj1("items", List(S)) } \cup Scalars

\* sequences of folders, documents and entries in a response
MaxFolders == 2
MaxDocs == 2
MaxEntries == 2

FolderListValues ==
    UNION { Shapes(S, "document_lists", "lists") \cup Shapeless(S) : S \in SeqsUpTo(FolderPool, MaxFolders) }

DocumentsValues ==
    UNION { Shapes(D, "documents", "docs") \cup Shapeless(D) : D \in SeqsUpTo(DocPool, MaxDocs) }

TranscriptValues ==
    UNION { Shapes(E, "transcript", "entries") \cup Shapeless(E) : E \in SeqsUpTo(EntryPool, MaxEntries) }

\* an output of a chunk of the stream
TextOutput(text) == [k |-> "obj", type |-> Str("text"), text |-> Str(text)]
OtherOutput == [k |-> "obj", type |-> Str("tool_call"), text |-> Str("x")]

\* a chunk of the stream
Chunk(outputs) == Obj1("outputs", List(outputs))

ChunkValues ==
    { Chunk(<<>>), Chunk(<<TextOutput("partial")>>), Chunk(<<TextOutput("final answer")>>),
      Chunk(<<OtherOutput, TextOutput(""), TextOutput("a"), TextOutput("b")>>),
      Chunk(<<OtherOutput>>), EmptyObj,
      List(<<>>), Obj1("outputs", Null), Chunk(<<Num(1), TextOutput("a")>>) }

\* the text between two boundary markers
ChunkTexts ==
    { <<>>, <<Ws>>, <<Junk>>, <<Ws, Json(Chunk(<<TextOutput("final answer")>>)), Ws>>,
      <<Json(Chunk(<<TextOutput("partial")>>)), Json(Chunk(<<TextOutput("a")>>))>> }
    \cup { <<Json(v)>> : v \in ChunkValues }

\* "<boundary>".join(chunks)
RECURSIVE Join(_)
Join(chunks) ==
    IF Len(chunks) = 0 THEN <<>>
    ELSE IF Len(chunks) = 1 THEN chunks[1]
    ELSE chunks[1] \o <<Bnd>> \o Join(Tail(chunks))

\* chunks in a streaming body
MaxChunks == 3

StreamBodies == { Join(cs) : cs \in SeqsUpTo(ChunkTexts, MaxChunks) }

\* the bodies a whole invocation is run against
SomeFolderLists ==
    { List(<<Folder("f1", <<Str("d1"), Str("d2")>>), Folder("f2", <<DocRef("d1")>>)>>),
      Obj1("document_lists", List(<<Folder("f2", <<>>), Folder("f1", <<Str("d1")>>)>>)),
      Obj1("lists", List(<<AltFolder("f1", <<Str("d1")>>)>>)),
      EmptyObj, Null }

SomeDocuments ==
    { Obj1("documents", List(<<Doc("d1", "2"), Doc("d2", "10")>>)),
      Obj1("docs", List(<<Doc("d1", "2")>>)), List(<<Doc("d1", "2")>>), EmptyObj }

SomeTranscripts ==
    { List(<<Entry("me", "hello")>>), Obj1("transcript", List(<<Entry("me", "hello")>>)),
      Obj1("entries", List(<<>>)), Null }

SomeStreams ==
    { Join(<<<<Json(Chunk(<<>>))>>, <<Json(Chunk(<<TextOutput("partial")>>))>>,
             <<Json(Chunk(<<TextOutput("final answer")>>))>>>>),
      <<Json(Chunk(<<>>))>>, <<Junk>>,
      Join(<<<<Json(Chunk(<<TextOutput("a")>>))>>, <<Json(List(<<>>))>>>>) }

Failures == { TimedOut, ConnectFailed, Completed(0, <<Junk>>) }

WaitPcs ==
    { "ws_wait", "auth_wait", "workspaces_wait", "folders_wait", "docs_lists_wait",
      "docs_batch_wait", "recent_wait", "transcript_wait", "chat_lists_wait", "chat_stream_wait" }

ResponsesAt(p) ==
    CASE p \in {"ws_wait", "auth_wait", "workspaces_wait"} -> WorkspacesResponses
      [] p \in {"folders_wait", "docs_lists_wait", "chat_lists_wait"} ->
            Failures \cup {Body(v) : v \in SomeFolderLists}
      [] p \in {"docs_batch_wait", "recent_wait"} -> Failures \cup {Body(v) : v \in SomeDocuments}
      [] p = "transcript_wait" -> Failures \cup {Body(v) : v \in SomeTranscripts}
      [] p = "chat_stream_wait" -> {TimedOut, ConnectFailed} \cup {Completed(0, raw) : raw \in SomeStreams}

DonePc(p) ==
    CASE p = "ws_wait" -> "ws_done"
      [] p = "auth_wait" -> "auth_done"
      [] p = "workspaces_wait" -> "workspaces_done"
      [] p = "folders_wait" -> "folders_done"
      [] p = "docs_lists_wait" -> "docs_lists_done"
      [] p = "docs_batch_wait" -> "docs_batch_done"
      [] p = "recent_wait" -> "recent_done"
      [] p = "transcript_wait" -> "transcript_done"
      [] p = "chat_lists_wait" -> "chat_lists_done"
      [] p = "chat_stream_wait" -> "chat_stream_done"

\* lines 118-129, 141-151: subprocess.run returns, or raises on timeout
CurlReturns ==
    /\ pc \in WaitPcs
    /\ result' \in ResponsesAt(pc)
    /\ pc' = DonePc(pc)
    /\ UNCHANGED <<disk, clock, hostWrites, peer, loc, creds, reqs, out, err, exit, nRefresh>>

----------------------------------------------------------------------------
(* The whole invocation, from main() to exit. *)

SomeDiskTokens ==
    { TokenDict(at, rt, <<0>>, <<1>>) :
        at \in {GoodJwt("at1"), Jwt("at1", <<Hdr, NoIssPayload, Sig>>)}, rt \in Opt({"r1"}) }

Init ==
    /\ pc = "start"
    /\ disk \in {NoFile} \cup {File(Document(t, "user_a")) : t \in SomeDiskTokens}
    /\ clock \in {MsPerSecond, MsPerSecond + 1}
    /\ hostWrites = 0
    /\ peer = NoPeer
    /\ loc = NoLocals
    /\ creds = [access_token |-> GoodJwt("none")]
    /\ reqs = <<>>
    /\ result = NoResult
    /\ out = <<>>
    /\ err = <<>>
    /\ exit = "running"
    /\ nRefresh = 0

Credentials ==
    \/ LoadCredentials
    \/ RefreshStart
    \/ ExchangeReturns
    \/ RefreshResponse
    \/ RereadCredentials
    \/ WriteCredentials
    \/ HostAppWrites

Commands ==
    \/ CmdAuthStart
    \/ CmdAuthFinish
    \/ CmdWorkspacesStart
    \/ CmdWorkspacesFinish
    \/ CmdFoldersStart
    \/ CmdFoldersFinish
    \/ CmdDocsStart
    \/ CmdDocsLists
    \/ CmdDocsBatch
    \/ CmdRecentStart
    \/ CmdRecentFinish
    \/ CmdTranscriptStart
    \/ CmdTranscriptFinish
    \/ CmdChatDoc
    \/ CmdChatNoTarget
    \/ CmdChatFolder
    \/ CmdChatLists
    \/ CmdChatFinish

Next ==
    \/ Credentials
    \/ GetWorkspaceId
    \/ CurlReturns
    \/ WorkspaceResolved
    \/ Commands

Spec == Init /\ [][Next]_vars

----------------------------------------------------------------------------
(* The credential phase alone, over every credential file and instant. *)

InitCred ==
    /\ pc = "start"
    /\ disk \in {NoFile} \cup {File(Document(t, "user_a")) : t \in DiskTokens}
    /\ clock \in ClockVals
    /\ hostWrites = 0
    /\ peer = NoPeer
    /\ loc = NoLocals
    /\ creds = [access_token |-> GoodJwt("none")]
    /\ reqs = <<>>
    /\ result = NoResult
    /\ out = <<>>
    /\ err = <<>>
    /\ exit = "running"
    /\ nRefresh = 0

NextCred == Credentials

SpecCred == InitCred /\ [][NextCred]_vars

----------------------------------------------------------------------------
(* The program past main()'s line 405: credentials loaded and not expired,  *)
(* the workspace resolved, and the command at the return of a curl call.    *)

CredsInUse == [access_token |-> GoodJwt("at1"), workspace_id |-> Str("w1")]

\* the requests made so far: get_workspace_id's, then the command's own
RequestsSoFar(own) ==
    <<RequestWith([access_token |-> GoodJwt("at1")], "api", "/v1/get-workspaces", EmptyObj)>>
    \o [i \in 1..Len(own) |-> RequestWith(CredsInUse, own[i][1], own[i][2], own[i][3])]

AtReturn(p, locals, own) ==
    /\ pc = p
    /\ disk = File(Document(TokenDict(GoodJwt("at1"), <<"r1">>, <<0>>, <<1>>), "user_a"))
    /\ clock = 0
    /\ hostWrites = 0
    /\ peer = NoPeer
    /\ loc = locals
    /\ creds = CredsInUse
    /\ reqs = RequestsSoFar(own)
    /\ out = <<>>
    /\ err = <<>>
    /\ exit = "running"
    /\ nRefresh = 0

ListsRequest == <<"api", "/v2/get-document-lists", EmptyObj>>

\* cmd_docs after its folder lookup found folder f1 with documents d1 and d2
DocsLocals ==
    [fn |-> "cmd_docs", folder_id |-> "f1",
     folders |-> List(<<Folder("f1", <<Str("d1"), Str("d2")>>)>>),
     folder_name |-> Str("f1"), doc_ids |-> <<Str("d1"), Str("d2")>>]

BatchRequest ==
    <<"api", "/v1/get-documents-batch",
      [k |-> "obj", document_ids |-> DocsLocals.doc_ids, include_last_viewed_panel |-> FALSE]>>

RecentRequest ==
    <<"api", "/v2/get-documents",
      [k |-> "obj", limit |-> DefaultLimit, offset |-> 0, include_last_viewed_panel |-> FALSE]>>

----------------------------------------------------------------------------
(* Response normalization at each call site, over every response shape. *)

InitNorm ==
    \/ /\ AtReturn("folders_done", [fn |-> "cmd_folders"], <<ListsRequest>>)
       /\ result \in {Body(v) : v \in FolderListValues}
    \/ /\ \E folder_id \in FolderIds :
             AtReturn("docs_lists_done", [fn |-> "cmd_docs", folder_id |-> folder_id], <<ListsRequest>>)
       /\ result \in {Body(v) : v \in FolderListValues}
    \/ /\ \E folder_id \in FolderIds :
             AtReturn("chat_lists_done", [fn |-> "cmd_chat", folder_id |-> folder_id], <<ListsRequest>>)
       /\ result \in {Body(v) : v \in FolderListValues}
    \/ /\ AtReturn("docs_batch_done", DocsLocals, <<ListsRequest, BatchRequest>>)
       /\ result \in {Body(v) : v \in DocumentsValues}
    \/ /\ AtReturn("recent_done", [fn |-> "cmd_recent", limit |-> DefaultLimit], <<RecentRequest>>)
       /\ result \in {Body(v) : v \in DocumentsValues}
    \/ /\ \E doc_id \in DocIds :
             AtReturn("transcript_done", [fn |-> "cmd_transcript", doc_id |-> doc_id],
                      <<<<"api", "/v1/get-document-transcript", [k |-> "obj", document_id |-> doc_id]>>>>)
       /\ result \in {Body(v) : v \in TranscriptValues}

NextNorm ==
    \/ CmdFoldersFinish
    \/ CmdDocsLists
    \/ CmdDocsBatch
    \/ CmdRecentFinish
    \/ CmdTranscriptFinish
    \/ CmdChatLists

SpecNorm == InitNorm /\ [][NextNorm]_vars

----------------------------------------------------------------------------
(* Stream aggregation, over every streaming body. *)

InitStream ==
    /\ \E doc_id \in DocIds :
          AtReturn("chat_stream_done",
                   [fn |-> "cmd_chat", doc_id |-> doc_id, doc_ids |-> <<Str(doc_id)>>],
                   <<<<"stream", "/v1/chat-with-documents-web", ChatBody(<<Str(doc_id)>>, "")>>>>)
    /\ result \in {TimedOut, ConnectFailed} \cup {Completed(0, raw) : raw \in StreamBodies}

NextStream == CmdChatFinish

SpecStream == InitStream /\ [][NextStream]_vars

----------------------------------------------------------------------------
(* api_post at each of its call sites, over bodies that are and are not JSON. *)

\* a body of n characters that are no JSON
JunkOfLen(n) == [i \in 1..n |-> Junk]

\* bodies json.loads rejects: empty, blank, text that is no JSON, short and
\* longer than the excerpt, and two JSON values in a row
NonJsonBodies ==
    { <<>>, <<Ws>>, <<Junk>>, <<Ws, Junk, Ws>>, <<Json(EmptyObj), Json(EmptyObj)>>,
      JunkOfLen(RawLimit - 1), JunkOfLen(RawLimit), JunkOfLen(RawLimit + 1),
      <<Json(EmptyObj)>> \o JunkOfLen(RawLimit) }

\* bodies json.loads accepts
JsonBodies ==
    { <<Json(EmptyObj)>>, <<Ws, Json(Null), Ws>>,
      <<Json(Obj1("workspaces", List(<<Workspace("w1")>>)))>>,
      <<Json(List(<<Folder("f1", <<Str("d1")>>)>>))>> }

PostResults == {Completed(rc, body) : rc \in {0, 22}, body \in NonJsonBodies \cup JsonBodies}

WorkspacesRequest == <<"api", "/v1/get-workspaces", EmptyObj>>

\* get_workspace_id at the return of its call: no workspace id yet
AtWorkspaceReturn ==
    /\ pc = "ws_done"
    /\ disk = File(Document(TokenDict(GoodJwt("at1"), <<"r1">>, <<0>>, <<1>>), "user_a"))
    /\ clock = 0
    /\ hostWrites = 0
    /\ peer = NoPeer
    /\ loc = NoLocals
    /\ creds = [access_token |-> GoodJwt("at1")]
    /\ reqs = RequestsSoFar(<<>>)
    /\ out = <<>>
    /\ err = <<>>
    /\ exit = "running"
    /\ nRefresh = 0

InitPost ==
    /\ \/ AtWorkspaceReturn
       \/ \E u \in UserInfos :
             AtReturn("auth_done", [fn |-> "cmd_auth", user_info |-> [id |-> u, email |-> u]],
                      <<WorkspacesRequest>>)
       \/ AtReturn("workspaces_done", [fn |-> "cmd_workspaces"], <<WorkspacesRequest>>)
       \/ AtReturn("folders_done", [fn |-> "cmd_folders"], <<ListsRequest>>)
       \/ \E folder_id \in FolderIds :
             AtReturn("docs_lists_done", [fn |-> "cmd_docs", folder_id |-> folder_id], <<ListsRequest>>)
       \/ \E folder_id \in FolderIds :
             AtReturn("chat_lists_done", [fn |-> "cmd_chat", folder_id |-> folder_id], <<ListsRequest>>)
       \/ AtReturn("docs_batch_done", DocsLocals, <<ListsRequest, BatchRequest>>)
       \/ AtReturn("recent_done", [fn |-> "cmd_recent", limit |-> DefaultLimit], <<RecentRequest>>)
       \/ \E doc_id \in DocIds :
             AtReturn("transcript_done", [fn |-> "cmd_transcript", doc_id |-> doc_id],
                      <<<<"api", "/v1/get-document-transcript", [k |-> "obj", document_id |-> doc_id]>>>>)
    /\ result \in PostResults

NextPost ==
    \/ WorkspaceResolved
    \/ CmdAuthFinish
    \/ CmdWorkspacesFinish
    \/ CmdFoldersFinish
    \/ CmdDocsLists
    \/ CmdDocsBatch
    \/ CmdRecentFinish
    \/ CmdTranscriptFinish
    \/ CmdChatLists

SpecPost == InitPost /\ [][NextPost]_vars

----------------------------------------------------------------------------
(* The refresh up to the token exchange, over payload segments of every     *)
(* length up to MaxPayloadLen.                                              *)

SizedAccessTokens ==
    { Jwt("at1", <<Hdr, WithLen(p, n), Sig>>) :
        p \in {IssPayload("client_1"), NoIssPayload, NotJsonPayload}, n \in 0..MaxPayloadLen }
    \cup { Jwt("at1", <<Hdr>>) }

InitPad ==
    /\ pc = "start"
    /\ disk \in { File(Document(TokenDict(at, rt, <<0>>, <<1>>), "user_a")) :
                    at \in SizedAccessTokens, rt \in Opt({"", "r1"}) }
    /\ clock \in {MsPerSecond, MsPerSecond + 1}
    /\ hostWrites = 0
    /\ peer = NoPeer
    /\ loc = NoLocals
    /\ creds = [access_token |-> GoodJwt("none")]
    /\ reqs = <<>>
    /\ result = NoResult
    /\ out = <<>>
    /\ err = <<>>
    /\ exit = "running"
    /\ nRefresh = 0

NextPad ==
    \/ LoadCredentials
    \/ PadPayload
    \/ DecodePayload

SpecPad == InitPad /\ [][NextPad]_vars

----------------------------------------------------------------------------
(* Two invocations against one credential file, each in its credential     *)
(* phase.                                                                   *)

\* an invocation that has not started
AtStart ==
    [pc |-> "start", loc |-> NoLocals, creds |-> [access_token |-> GoodJwt("none")],
     result |-> NoResult, out |-> <<>>, err |-> <<>>, exit |-> "running", nRefresh |-> 0]

InitConc ==
    /\ pc = "start"
    /\ disk \in {File(Document(t, "user_a")) : t \in SomeDiskTokens}
    /\ clock \in {MsPerSecond, MsPerSecond + 1}
    /\ hostWrites = 0
    /\ peer = AtStart
    /\ loc = NoLocals
    /\ creds = [access_token |-> GoodJwt("none")]
    /\ reqs = <<>>
    /\ result = NoResult
    /\ out = <<>>
    /\ err = <<>>
    /\ exit = "running"
    /\ nRefresh = 0

NextConc ==
    \/ LoadCredentials
    \/ RefreshStart
    \/ ExchangeReturns
    \/ RefreshResponse
    \/ RereadCredentials
    \/ OpenCredentialsForWrite
    \/ DumpCredentials
    \/ Switch

SpecConc == InitConc /\ [][NextConc]_vars

----------------------------------------------------------------------------
(* Properties of the credential phase. *)

\* the token dict in the credential file
StoredTokens == JsonLoadsField(disk.doc.workos_tokens)

\* the instant a token dict expires, in milliseconds
ExpiryInstant(t) ==
    (IF "obtained_at" \in DOMAIN t THEN t.obtained_at ELSE 0)
    + (IF "expires_in" \in DOMAIN t THEN t.expires_in ELSE 3600) * 1000

\* the token-exchange requests issued so far
Exchanges == {i \in 1..Len(reqs) : reqs[i].to = "workos"}

\* C1: load_credentials enters refresh_access_token if and only if the current
\* time is past obtained_at + expires_in * 1000 of the stored tokens; at that
\* instant or before it, it returns the stored access token without a refresh.
C1_RefreshIffExpired ==
    /\ pc = "refresh" => nRefresh = 1 /\ clock > ExpiryInstant(StoredTokens)
    /\ (pc = "get_workspace_id" /\ nRefresh = 0) =>
          /\ clock <= ExpiryInstant(StoredTokens)
          /\ creds.access_token = StoredTokens.access_token
          /\ reqs = <<>>

\* C1 witness: loaded exactly at the expiry instant, and no refresh was made
C1_Witness ==
    /\ pc = "get_workspace_id"
    /\ nRefresh = 0
    /\ clock = ExpiryInstant(StoredTokens)
    /\ creds.access_token = StoredTokens.access_token

\* the tokens refresh_access_token was given let it reach the exchange: a
\* non-empty refresh token, and an access token with a second segment that
\* decodes to JSON holding "iss"
ReachesExchange(t) ==
    /\ "refresh_token" \in DOMAIN t
    /\ t.refresh_token # ""
    /\ Len(t.access_token.segs) >= 2
    /\ t.access_token.segs[2].p = "iss"

\* C2 as stated: once the invocation has ended, or has handed the token to
\* main(), one token exchange was issued if the loaded bundle was expired and
\* none otherwise.
C2_ExactlyOnceWhenExpired ==
    pc \in {"done", "get_workspace_id"} =>
        Cardinality(Exchanges) = (IF nRefresh > 0 THEN 1 ELSE 0)

\* C2 as amended: an invocation enters refresh_access_token at most once and
\* issues at most one token exchange, none when the loaded bundle is not
\* expired, and one when it is expired and the refresh got as far as the
\* exchange; a response whose token expires at once changes nothing.
C2_AtMostOnce ==
    /\ nRefresh <= 1
    /\ Cardinality(Exchanges) <= nRefresh
    /\ (nRefresh = 1 /\ pc \notin {"refresh", "done"}) => Cardinality(Exchanges) = 1
    /\ (nRefresh = 1 /\ pc = "done" /\ "tokens" \in DOMAIN loc) =>
          (Cardinality(Exchanges) = 1 <=> ReachesExchange(loc.tokens))

\* C2 witness: a refresh whose response said expires_in = 0; the invocation
\* went on to its end with the one exchange
C2_Witness ==
    /\ pc = "done"
    /\ exit = "0"
    /\ nRefresh = 1
    /\ Cardinality(Exchanges) = 1
    /\ StoredTokens.expires_in = 0

C4_OnlyTokensChange ==
    [][ /\ (pc = "reread" /\ pc' = "write") => loc'.cred_data = disk.doc
        /\ (pc = "write" /\ pc' # "write") =>
              /\ DOMAIN disk'.doc = DOMAIN loc.cred_data
              /\ \A f \in DOMAIN loc.cred_data \ {"workos_tokens"} : disk'.doc[f] = loc.cred_data[f]
              /\ disk'.doc.workos_tokens = JsonDumps(loc.new_tokens) ]_vars

\* C4 witness: the rotated tokens are stored beside a user-info record that is
\* not the one the file held when the invocation started
C4_Witness ==
    /\ pc = "get_workspace_id"
    /\ nRefresh > 0
    /\ StoredTokens.access_token = GoodJwt("at2")
    /\ disk.doc.user_info = JsonDumps([id |-> "user_b", email |-> "user_b"])

----------------------------------------------------------------------------
(* Properties of stream aggregation. *)

\* the value a chunk parses to, when it parses as JSON
ParsesAsJson(chunk) ==
    \E i \in 1..Len(chunk) :
        /\ chunk[i].t = "json"
        /\ \A j \in 1..Len(chunk) : j # i => chunk[j].t = "ws"

ValueOf(chunk) == chunk[CHOOSE i \in 1..Len(chunk) : chunk[i].t = "json"].v

\* the outputs of a chunk that parses
OutputsOf(chunk) ==
    LET v == ValueOf(chunk)
    IN IF v.k = "obj" /\ "outputs" \in DOMAIN v /\ v.outputs.k = "list" THEN v.outputs.items ELSE <<>>

\* an output of type "text" with non-empty text
Textual(o) ==
    /\ o.k = "obj"
    /\ "type" \in DOMAIN o
    /\ o.type = [k |-> "str", s |-> "text"]
    /\ "text" \in DOMAIN o
    /\ o.text.k = "str"
    /\ o.text.s # ""

\* the chunk parses as JSON and holds at least one textual output
Qualifies(chunk) ==
    /\ ParsesAsJson(chunk)
    /\ \E i \in 1..Len(OutputsOf(chunk)) : Textual(OutputsOf(chunk)[i])

\* the chunks of a body, in stream order
ChunksOf(raw) == Split(raw)

QualifyingChunks(raw) == {i \in 1..Len(ChunksOf(raw)) : Qualifies(ChunksOf(raw)[i])}

\* the text of the first textual output of the last qualifying chunk
ExpectedText(raw) ==
    LET Q == QualifyingChunks(raw)
        last == CHOOSE i \in Q : \A j \in Q : j <= i
        outputs == OutputsOf(ChunksOf(raw)[last])
        T == {i \in 1..Len(outputs) : Textual(outputs[i])}
        first == CHOOSE i \in T : \A j \in T : i <= j
    IN outputs[first].text

\* cmd_chat has ended on a streaming call that returned a body
ChatEnded ==
    /\ pc = "done"
    /\ loc.fn = "cmd_chat"
    /\ result.st = "completed"

NoChatResponse == <<[m |-> "ERROR: No response received from chat API."]>>

\* C5: for every streaming body with a qualifying chunk, api_stream returns the
\* text of the first textual output of the last qualifying chunk, and the chat
\* command prints it; no earlier chunk determines the result.
C5_LastQualifyingChunk ==
    (ChatEnded /\ QualifyingChunks(result.stdout) # {}) =>
        /\ "text" \in DOMAIN loc
        /\ loc.text = ExpectedText(result.stdout)
        /\ out = <<[cmd |-> "chat", text |-> ExpectedText(result.stdout)]>>
        /\ exit = "0"

\* C6: for every streaming body with no qualifying chunk, api_stream returns
\* the empty string, and the chat command prints nothing, reports
\* NoChatResponse on the error stream and exits non-zero.
C6_EmptyStream ==
    (ChatEnded /\ QualifyingChunks(result.stdout) = {}) =>
        /\ "text" \in DOMAIN loc
        /\ loc.text = [k |-> "str", s |-> ""]
        /\ out = <<>>
        /\ err = NoChatResponse
        /\ exit = "1"

\* C7: the chat command reports NoChatResponse only for a streaming call that
\* succeeded; a call that failed at transport level, producing no body, ends
\* in another way.
C7_TransportDistinct ==
    (pc = "done" /\ loc.fn = "cmd_chat" /\ err = NoChatResponse) =>
        (result.st = "completed" /\ result.rc = 0)

----------------------------------------------------------------------------
(* Properties of response normalization. *)

\* the response the command was given
Response == JsonLoads(result.stdout).v

\* the three shapes a sequence S may arrive in
ThreeShapes(S, keyA, keyB) ==
    { [k |-> "list", items |-> S],
      [x \in {"k", keyA} |-> IF x = "k" THEN "obj" ELSE [k |-> "list", items |-> S]],
      [x \in {"k", keyB} |-> IF x = "k" THEN "obj" ELSE [k |-> "list", items |-> S]] }

\* neither key nor the bare-sequence form applies
NoShape(resp, keyA, keyB) ==
    /\ resp.k # "list"
    /\ ~(resp.k = "obj" /\ {keyA, keyB} \cap DOMAIN resp # {})

\* the command is past the normalization of its folder-list response
PastFolderLists ==
    \/ loc.fn = "cmd_folders" /\ pc = "done"
    \/ loc.fn = "cmd_docs" /\ (pc = "docs_batch_wait" \/ (pc = "done" /\ "doc_ids" \notin DOMAIN loc))
    \/ loc.fn = "cmd_chat" /\ (pc = "chat_stream_wait" \/ (pc = "done" /\ "doc_ids" \notin DOMAIN loc))

\* the command is past the normalization of its documents response
PastDocuments ==
    \/ loc.fn = "cmd_recent" /\ pc = "done"
    \/ loc.fn = "cmd_docs" /\ pc = "done" /\ "doc_ids" \in DOMAIN loc

\* C8: for every sequence S of folder records, the folder-list normalization
\* of folders, docs and chat --folder yields S, in order, whether the response
\* is S itself, {document_lists: S} or {lists: S}.
C8_FolderShapes ==
    \A S \in SeqsUpTo(FolderPool, MaxFolders) :
        (PastFolderLists /\ Response \in ThreeShapes(S, "document_lists", "lists")) =>
            /\ "folders" \in DOMAIN loc
            /\ loc.folders = [k |-> "list", items |-> S]

\* C8 witness: chat --folder found its folder in two different folders that
\* came under the key "lists", kept in the order they came in
C8_Witness ==
    /\ pc = "chat_stream_wait"
    /\ loc.fn = "cmd_chat"
    /\ Response.k = "obj"
    /\ "lists" \in DOMAIN Response
    /\ Len(Response.lists.items) = 2
    /\ Response.lists.items[1] # Response.lists.items[2]
    /\ loc.folders = Response.lists

\* C9: for every sequence D of document records, docs and recent normalize the
\* response to D and complete, whether the response is D itself,
\* {documents: D} or {docs: D}.
C9_DocumentShapes ==
    \A D \in SeqsUpTo(DocPool, MaxDocs) :
        (PastDocuments /\ Response \in ThreeShapes(D, "documents", "docs")) =>
            /\ "docs" \in DOMAIN loc
            /\ loc.docs = [k |-> "list", items |-> D]
            /\ exit = "0"

\* C10: for every response in which neither key nor the bare-sequence form
\* applies, the call site goes on with the empty collection: folders, recent
\* and transcript print an empty result, docs and chat --folder report the
\* folder as not found; none aborts with a traceback.
C10_EmptyCollection ==
    /\ (PastFolderLists /\ NoShape(Response, "document_lists", "lists")) =>
          IF loc.fn = "cmd_folders"
          THEN out = <<[cmd |-> "folders", output |-> <<>>]>> /\ exit = "0"
          ELSE /\ pc = "done"
               /\ err = <<[m |-> "ERROR: Folder not found or empty.", folder_id |-> loc.folder_id]>>
               /\ out = <<>>
    /\ (pc = "done" /\ loc.fn = "cmd_recent" /\ NoShape(Response, "docs", "documents")) =>
          out = <<[cmd |-> "recent", output |-> <<>>]>> /\ exit = "0"
    /\ (pc = "done" /\ loc.fn = "cmd_transcript" /\ NoShape(Response, "transcript", "entries")) =>
          out = <<[cmd |-> "transcript", lines |-> <<>>]>> /\ exit = "0"

----------------------------------------------------------------------------
(* Properties of the folder lookup. *)

\* the folders of the response in which the lookup is made, in list order
LookedUpFolders == loc.folders.items

\* the positions of the folders whose id is the one the command was given
Matches ==
    {i \in 1..Len(LookedUpFolders) :
        /\ "id" \in DOMAIN LookedUpFolders[i]
        /\ LookedUpFolders[i].id = [k |-> "str", s |-> loc.folder_id]}

\* the first folder in list order whose id matches
MatchedFolder == LookedUpFolders[CHOOSE i \in Matches : \A j \in Matches : i <= j]

\* the entries under which a folder names its documents
RawIds(folder) ==
    IF "document_ids" \in DOMAIN folder THEN folder.document_ids.items
    ELSE IF "documents" \in DOMAIN folder THEN folder.documents.items
    ELSE <<>>

\* the id an entry stands for: itself when a plain string, else its "id"
IdOfEntry(e) == IF e.k = "str" THEN e ELSE e.id

\* the lookup of docs or chat --folder has found its folder and gone on
LookupSucceeded ==
    \/ loc.fn = "cmd_docs" /\ pc = "docs_batch_wait"
    \/ loc.fn = "cmd_chat" /\ pc = "chat_stream_wait" /\ "folder_id" \in DOMAIN loc

\* C11: in docs and chat --folder, the ids of the matched folder are its
\* entries in order, a plain string standing for itself and an object for its
\* "id": the same ids in either form give the same sequence, of the same
\* length and order, and that sequence is what the follow-up request carries.
C11_IdForms ==
    LookupSucceeded =>
        LET raw == RawIds(MatchedFolder)
        IN /\ Len(loc.doc_ids) = Len(raw)
           /\ \A i \in 1..Len(raw) : loc.doc_ids[i] = IdOfEntry(raw[i])
           /\ reqs[Len(reqs)].body.document_ids = loc.doc_ids

\* C11 witness: chat --folder matched a folder whose two entries are objects,
\* and holds the two ids they carry, in order
C11_Witness ==
    /\ LookupSucceeded
    /\ loc.fn = "cmd_chat"
    /\ Len(RawIds(MatchedFolder)) = 2
    /\ \A i \in 1..2 : RawIds(MatchedFolder)[i].k = "obj"
    /\ loc.doc_ids = <<[k |-> "str", s |-> "d1"], [k |-> "str", s |-> "d2"]>>

----------------------------------------------------------------------------
(* Properties of the output of docs. *)

\* the place of a created_at string among those a response may hold, in
\* lexicographic order: "" < "10" < "2"
LexRank(s) == CASE s = "" -> 0 [] s = "10" -> 1 [] s = "2" -> 2

\* the created_at a document sorts under
SortKey(doc) == IF "created_at" \in DOMAIN doc THEN doc.created_at.s ELSE ""

\* the entry docs prints for a document
PrintedFor(doc) ==
    [id |-> IF "id" \in DOMAIN doc THEN doc.id ELSE [k |-> "null"],
     title |-> IF "title" \in DOMAIN doc THEN doc.title ELSE [k |-> "str", s |-> "untitled"],
     created_at |-> [k |-> "str", s |-> SortKey(doc)],
     updated_at |-> IF "updated_at" \in DOMAIN doc THEN doc.updated_at ELSE [k |-> "str", s |-> ""]]

Reorderings(n) == {p \in [1..n -> 1..n] : \A i, j \in 1..n : p[i] = p[j] => i = j}

\* docs has printed its result
DocsPrinted == pc = "done" /\ loc.fn = "cmd_docs" /\ exit = "0"

\* C12: the documents docs prints are the normalized batch in another order:
\* ascending by created_at compared as strings, an absent created_at counting
\* as "", and documents of equal created_at in the order of the response.
C12_StableSort ==
    DocsPrinted =>
        LET docs == loc.docs.items
            printed == out[1].output.documents
            n == Len(docs)
        IN /\ Len(out) = 1
           /\ Len(printed) = n
           /\ \E p \in Reorderings(n) :
                 /\ \A i \in 1..n : printed[i] = PrintedFor(docs[p[i]])
                 /\ \A i, j \in 1..n :
                       i < j =>
                          \/ LexRank(SortKey(docs[p[i]])) < LexRank(SortKey(docs[p[j]]))
                          \/ /\ SortKey(docs[p[i]]) = SortKey(docs[p[j]])
                             /\ p[i] < p[j]

\* C12 witness: "10" came after "2" in the response and is printed first
C12_Witness ==
    /\ DocsPrinted
    /\ Len(loc.docs.items) = 2
    /\ SortKey(loc.docs.items[1]) = "2"
    /\ SortKey(loc.docs.items[2]) = "10"
    /\ out[1].output.documents[1].created_at.s = "10"

----------------------------------------------------------------------------
(* Properties of the client-id extraction. *)

\* the token is not three segments, or its payload segment does not decode to
\* JSON holding the issuer claim
MalformedToken(access_token) ==
    \/ Len(access_token.segs) # 3
    \/ access_token.segs[2].p # "iss"

\* C13: a refresh given an access token that is not exactly three segments, or
\* whose payload does not decode to JSON, or lacks the issuer claim, stops the
\* process with an error and issues no token-exchange request.
C13_MalformedTokenStops ==
    (pc # "refresh" /\ "tokens" \in DOMAIN loc /\ MalformedToken(loc.tokens.access_token)) =>
        /\ pc = "done"
        /\ exit = "1"
        /\ err # <<>>
        /\ Exchanges = {}

----------------------------------------------------------------------------
(* Properties of the credential state machine. *)

\* the diagnostics of the failure states CredentialsNotFound, NoRefreshToken
\* and RefreshFailed
FailureDiagnostics ==
    { "Make sure the Granola desktop app is installed and you are signed in.",
      "ERROR: No refresh token available. Please sign in to the Granola app.",
      "ERROR: Token refresh failed" }

\* C14: the credential phase ends in success, Fresh directly or after
\* Refreshed, or in one of CredentialsNotFound, NoRefreshToken, RefreshFailed,
\* which print their diagnostic and exit non-zero; it has no other end.
C14_TerminalStates ==
    /\ pc = "get_workspace_id" =>
          /\ exit = "running"
          /\ \/ nRefresh = 0 /\ err = <<>>
             \/ nRefresh = 1 /\ err[Len(err)].m = "Token refreshed successfully."
    /\ pc = "done" =>
          /\ exit = "1"
          /\ err # <<>>
          /\ err[Len(err)].m \in FailureDiagnostics

----------------------------------------------------------------------------
(* Properties of a whole invocation. *)

\* C15: an invocation that ends in failure has written nothing to standard
\* output, and one that has written to standard output ends in success.
C15_NoPartialSuccess ==
    /\ exit = "1" => out = <<>>
    /\ (pc = "done" /\ out # <<>>) => exit = "0"

\* the requests to the API, standard or streaming, among rs
ToApi(r) == r.to # "workos"
ApiRequests(rs) == SelectSeq(rs, ToApi)

\* the workspace list of the response is empty or absent
NoWorkspaces(resp) ==
    resp.k = "obj" /\ ("workspaces" \in DOMAIN resp => resp.workspaces = [k |-> "list", items |-> <<>>])

\* C16: the first API request is get-workspaces with an empty workspace-id
\* header; the workspace id then taken is that of the first entry of its
\* response, it is never changed, and every later API request carries it; an
\* empty or absent list ends the process non-zero with no further request.
C16_WorkspaceFirst ==
    [][ /\ ApiRequests(reqs') # <<>> =>
              /\ ApiRequests(reqs')[1].path = "/v1/get-workspaces"
              /\ ApiRequests(reqs')[1].ws = [k |-> "str", s |-> ""]
        /\ (pc = "ws_done" /\ pc' = "dispatch") =>
              creds'.workspace_id = Response.workspaces.items[1].workspace.workspace_id
        /\ (pc = "ws_done" /\ pc' # "ws_done" /\ result.st = "completed"
              /\ JsonLoads(result.stdout).st = "ret" /\ NoWorkspaces(Response)) =>
              pc' = "done" /\ exit' = "1" /\ err' # <<>> /\ reqs' = reqs
        /\ "workspace_id" \in DOMAIN creds => creds' = creds
        /\ (ApiRequests(reqs) # <<>> /\ ApiRequests(reqs') # ApiRequests(reqs)) =>
              /\ pc \notin {"start", "refresh", "exchange_wait", "exchange_done", "reread", "write",
                            "get_workspace_id", "ws_wait", "ws_done"}
              /\ "workspace_id" \in DOMAIN creds
              /\ Len(reqs') = Len(reqs) + 1
              /\ reqs'[Len(reqs')].ws = creds.workspace_id ]_vars

\* C16 witness: the response listed w2 before w1, and a command request
\* carries w2
C16_Witness ==
    /\ Len(ApiRequests(reqs)) >= 2
    /\ ApiRequests(reqs)[Len(ApiRequests(reqs))].ws = [k |-> "str", s |-> "w2"]
    /\ ApiRequests(reqs)[Len(ApiRequests(reqs))].path # "/v1/get-workspaces"

\* the get-workspaces requests issued so far
WorkspaceFetches == {i \in 1..Len(reqs) : reqs[i].to = "api" /\ reqs[i].path = "/v1/get-workspaces"}

\* C17: whatever the command, an invocation issues at most one get-workspaces
\* request between its start and its exit.
C17_FetchedOnce == Cardinality(WorkspaceFetches) <= 1

\* How far a position is from the start: the invocation only moves forward,
\* so no position, and no call site, is reached twice.
Progress(p) ==
    CASE p = "start" -> 0
      [] p = "refresh" -> 1
      [] p = "exchange_wait" -> 2
      [] p = "exchange_done" -> 3
      [] p = "reread" -> 4
      [] p = "write" -> 5
      [] p = "get_workspace_id" -> 6
      [] p = "ws_wait" -> 7
      [] p = "ws_done" -> 8
      [] p = "dispatch" -> 9
      [] p \in {"auth_wait", "workspaces_wait", "folders_wait", "recent_wait", "transcript_wait",
                "docs_lists_wait", "chat_lists_wait"} -> 10
      [] p \in {"auth_done", "workspaces_done", "folders_done", "recent_done", "transcript_done",
                "docs_lists_done", "chat_lists_done"} -> 11
      [] p \in {"docs_batch_wait", "chat_stream_wait"} -> 12
      [] p \in {"docs_batch_done", "chat_stream_done"} -> 13
      [] p = "done" -> 14

\* the call that has returned timed out, failed, or gave a body that is no JSON
CallFailed ==
    \/ result.st = "timeout"
    \/ result.st = "completed" /\ (result.rc # 0 \/ JsonLoads(result.stdout).st = "raise")

\* the positions at which a standard call or the token exchange has returned
ReturnedPcs ==
    {"exchange_done", "ws_done", "auth_done", "workspaces_done", "folders_done", "recent_done",
     "transcript_done", "docs_lists_done", "chat_lists_done", "docs_batch_done"}

\* C18: no request is retried: the invocation only moves forward, a request is
\* issued only on entering a call site and one at a time, and after a call that
\* timed out or failed the process ends non-zero with no further request.
C18_NoRetry ==
    [][ /\ pc' # pc => Progress(pc') > Progress(pc)
        /\ reqs' # reqs =>
              /\ pc' \in WaitPcs \cup {"exchange_wait"}
              /\ pc' # pc
              /\ Len(reqs') = Len(reqs) + 1
              /\ SubSeq(reqs', 1, Len(reqs)) = reqs
        /\ (pc' # pc /\ pc \in ReturnedPcs /\ CallFailed) =>
              pc' = "done" /\ exit' = "1" /\ err' # err /\ reqs' = reqs
        /\ (pc' # pc /\ pc = "chat_stream_done" /\ (result.st = "timeout" \/ result.rc # 0)) =>
              pc' = "done" /\ exit' = "1" /\ err' # err /\ reqs' = reqs
        /\ pc = "done" => reqs' = reqs ]_vars

\* C18 witness: the second call of a command timed out and the process has
\* ended non-zero, three requests in all
C18_Witness ==
    /\ pc = "done"
    /\ exit = "1"
    /\ result.st = "timeout"
    /\ Len(reqs) = 3
    /\ reqs[3].path = "/v1/get-documents-batch"

----------------------------------------------------------------------------
(* Properties of api_post. *)

\* the body of the call that returned is JSON: one JSON value, whitespace
\* around it allowed
BodyIsJson ==
    \E i \in 1..Len(result.stdout) :
        /\ result.stdout[i].t = "json"
        /\ \A j \in 1..Len(result.stdout) : j # i => result.stdout[j].t = "ws"

\* C19: when the body api_post receives is not JSON, the process ends non-zero
\* having printed, on the error stream alone, the path of the request and the
\* first characters of the body, 500 at most; it issues no later request.
C19_MalformedResponse ==
    (pc = "done" /\ result.st = "completed" /\ ~BodyIsJson) =>
        /\ exit = "1"
        /\ out = <<>>
        /\ Len(err) = 2
        /\ err[1] = [m |-> "ERROR: Failed to parse API response", path |-> reqs[Len(reqs)].path]
        /\ err[2].m = "Raw"
        /\ Len(err[2].raw) <= 500
        /\ Len(err[2].raw) <= Len(result.stdout)
        /\ Len(err[2].raw) = 500 \/ Len(err[2].raw) = Len(result.stdout)
        /\ \A i \in 1..Len(err[2].raw) : err[2].raw[i] = result.stdout[i]
        /\ Len(reqs) = Len(ApiRequests(reqs))
        /\ reqs[Len(reqs)].path \in
              { "/v1/get-workspaces", "/v2/get-document-lists", "/v1/get-documents-batch",
                "/v2/get-documents", "/v1/get-document-transcript" }

\* C19 witness: docs got a batch body of 501 characters that is no JSON, and
\* printed 500 of them
C19_Witness ==
    /\ pc = "done"
    /\ loc.fn = "cmd_docs"
    /\ reqs[Len(reqs)].path = "/v1/get-documents-batch"
    /\ Len(result.stdout) = 501
    /\ Len(err) = 2
    /\ Len(err[2].raw) = 500

\* docs or chat --folder is past its folder-list response
LookupDone ==
    /\ loc.fn \in {"cmd_docs", "cmd_chat"}
    /\ "folder_id" \in DOMAIN loc
    /\ pc \in {"docs_batch_wait", "chat_stream_wait"} \/ (pc = "done" /\ "doc_ids" \notin DOMAIN loc)

\* the folder supplied is in the response, and names at least one document
FolderFound ==
    /\ Response.k = "list" \/ Response.k = "obj"
    /\ "folders" \in DOMAIN loc
    /\ Matches # {}
    /\ RawIds(MatchedFolder) # <<>>

\* the path of the request that follows the lookup
FollowUpPath == IF loc.fn = "cmd_docs" THEN "/v1/get-documents-batch" ELSE "/v1/chat-with-documents-web"

\* C20: docs and chat --folder issue their follow-up request exactly when the
\* first folder in list order whose id is the one supplied names at least one
\* document; when no folder matches, or that folder is empty, they report the
\* folder as not found or empty, exit non-zero and issue no follow-up request.
C20_FollowUpIffFound ==
    LookupDone =>
        IF FolderFound
        THEN /\ pc \in {"docs_batch_wait", "chat_stream_wait"}
             /\ Len(reqs) = 3
             /\ reqs[3].path = FollowUpPath
             /\ exit = "running"
        ELSE /\ pc = "done"
             /\ exit = "1"
             /\ err = <<[m |-> "ERROR: Folder not found or empty.", folder_id |-> loc.folder_id]>>
             /\ out = <<>>
             /\ Len(reqs) = 2
             /\ reqs[2].path = "/v2/get-document-lists"


----------------------------------------------------------------------------
(* The bearer of the API requests. *)

\* the positions in load_credentials and refresh_access_token
CredentialPcs == {"start", "refresh", "exchange_wait", "exchange_done", "reread", "write"}

\* the positions of the API requests issued so far
ApiCalls == {i \in 1..Len(reqs) : ToApi(reqs[i])}

\* the refresh has persisted its tokens and returned
Refreshed == \E k \in 1..Len(err) : err[k] = Msg("Token refreshed successfully.")

\* C21: no API request is issued before the credential phase has succeeded,
\* and every API request carries the access token that phase produced: the
\* stored token when it was fresh (no refresh entered), or after a refresh
\* the newly issued token, which is the access_token the refresh stored in the
\* credential document; the token exchange precedes every API request.
C21_BearerFromCredentialPhase ==
    \A i \in ApiCalls :
        /\ pc \notin CredentialPcs
        /\ disk.exists
        /\ reqs[i].bearer = creds.access_token
        /\ reqs[i].bearer = StoredTokens.access_token
        /\ \A j \in Exchanges : j < i
        /\ IF nRefresh = 0
           THEN Exchanges = {} /\ ~Refreshed /\ reqs[i].bearer.id = "at1"
           ELSE Exchanges # {} /\ Refreshed /\ reqs[i].bearer = GoodJwt("at2")

\* a command has completed after a refresh, its requests made with the new
\* token
C21_Witness ==
    /\ pc = "done"
    /\ exit = "0"
    /\ nRefresh = 1
    /\ Cardinality(ApiCalls) >= 2
    /\ \A i \in ApiCalls : reqs[i].bearer = GoodJwt("at2")


----------------------------------------------------------------------------
(* Writes of the credential file. *)

\* a step of the invocation: every statement of the program moves it on,
\* the desktop application's writes do not
ProgramStep == pc' # pc

\* the token exchange answered with both tokens
ExchangeSucceeded ==
    /\ result.st = "completed"
    /\ JsonLoads(result.stdout).st = "ret"
    /\ HasKey(JsonLoads(result.stdout).v, "access_token")
    /\ HasKey(JsonLoads(result.stdout).v, "refresh_token")

\* C22: the invocation writes the credential file only as the last step of a
\* successful token exchange; every other step it takes (token not expired,
\* file missing, no refresh token, refresh failed, token not decodable, and
\* every step of every command) leaves the on-disk document unchanged.
C22_WriteOnlyAfterExchange ==
    [][ProgramStep =>
         IF pc = "write"
         THEN /\ ExchangeSucceeded
              /\ Exchanges # {}
              /\ pc' = "get_workspace_id"
              /\ disk'.exists
         ELSE disk' = disk]_vars

\* the invocation ended after a refresh that rewrote the stored tokens; the
\* desktop application wrote nothing
C22_Witness ==
    /\ pc = "done"
    /\ hostWrites = 0
    /\ Refreshed
    /\ disk.exists
    /\ StoredTokens.access_token = GoodJwt("at2")
    /\ StoredTokens.refresh_token = "r2"


----------------------------------------------------------------------------
(* Refresh without a refresh token. *)

\* the refresh_token of a token dict is absent or empty
LacksRefreshToken(t) == "refresh_token" \notin DOMAIN t \/ t.refresh_token = ""

\* the positions of refresh_access_token past its first check
PastRefreshTokenCheck == {"exchange_wait", "exchange_done", "reread", "write"}

\* C24: when the loaded bundle is expired and its refresh_token is absent or
\* empty, the refresh ends at once with the no-refresh-token message and exit
\* status 1: no decode failure of the access token is reported, whatever the
\* token looks like, and no token-exchange request is issued.
C24_NoRefreshTokenFirst ==
    /\ (pc \in PastRefreshTokenCheck => ~LacksRefreshToken(loc.tokens))
    /\ (pc = "done" /\ nRefresh = 1 /\ disk.exists /\ LacksRefreshToken(StoredTokens)) =>
          /\ err = <<Msg("Access token expired. Attempting refresh..."),
                     Msg("ERROR: No refresh token available. Please sign in to the Granola app.")>>
          /\ exit = "1"
          /\ reqs = <<>>
          /\ creds = [access_token |-> GoodJwt("none")]

\* the refresh of a bundle with an empty refresh token and an access token of
\* one segment has ended
C24_Witness ==
    /\ pc = "done"
    /\ nRefresh = 1
    /\ disk.exists
    /\ "refresh_token" \in DOMAIN StoredTokens
    /\ StoredTokens.refresh_token = ""
    /\ Len(StoredTokens.access_token.segs) = 1
    /\ exit = "1"


----------------------------------------------------------------------------
(* Chunks that do not parse. *)

\* chunks that are empty, blank or not the text of one JSON value
InvisibleChunks ==
    { <<>>, <<Ws>>, <<Ws, Ws>>, <<Junk>>, <<Ws, Junk, Ws>>,
      <<Json([k |-> "obj"]), Junk>>,
      <<Json([k |-> "obj", outputs |-> [k |-> "list", items |-> <<TextOutput("x")>>]]),
        Json([k |-> "obj"])>> }

\* the body with chunk c, and a boundary marker, put in after its k-th chunk
InsertChunk(raw, k, c) ==
    LET chunks == ChunksOf(raw)
    IN Join(SubSeq(chunks, 1, k) \o <<c>> \o SubSeq(chunks, k + 1, Len(chunks)))

\* the body with its k-th chunk, and a boundary marker, taken out
DeleteChunk(raw, k) ==
    LET chunks == ChunksOf(raw)
    IN Join(SubSeq(chunks, 1, k - 1) \o SubSeq(chunks, k + 1, Len(chunks)))

\* the chat command ended as it does when api_stream comes to outcome o
EndedAs(o) ==
    IF o.st = "raise" THEN out = <<>> /\ err = <<Traceback(o.exc)>> /\ exit = "1"
    ELSE IF o.v = [k |-> "str", s |-> ""]
    THEN out = <<>> /\ err = NoChatResponse /\ exit = "1" /\ loc.text = o.v
    ELSE out = <<[cmd |-> "chat", text |-> o.v]>> /\ err = <<>> /\ exit = "0" /\ loc.text = o.v

\* C26: chunks that do not parse as JSON are invisible to aggregation: the
\* chat command ends on a streaming body exactly as api_stream would have it
\* end on that body with an empty, blank or unparseable chunk (and its
\* boundary marker) inserted at any position, the last included, and on that
\* body with any such chunk deleted.
C26_UnparseableInvisible ==
    ChatEnded =>
        LET raw == result.stdout
            n == Len(ChunksOf(raw))
        IN /\ \A k \in 0..n : \A c \in InvisibleChunks :
                 EndedAs(StreamResultOf(InsertChunk(raw, k, c)))
           /\ \A k \in 1..n :
                 (n > 1 /\ ~ParsesAsJson(ChunksOf(raw)[k])) =>
                     EndedAs(StreamResultOf(DeleteChunk(raw, k)))

\* the answer of the first chunk was printed though the chunks after it do
\* not parse
C26_Witness ==
    /\ ChatEnded
    /\ Len(ChunksOf(result.stdout)) = 3
    /\ ChunksOf(result.stdout)[2] = <<Junk>>
    /\ ChunksOf(result.stdout)[3] = <<Ws>>
    /\ out = <<[cmd |-> "chat", text |-> [k |-> "str", s |-> "partial"]]>>


----------------------------------------------------------------------------
(* Totality of aggregation. *)

\* C27: aggregation is total: on every streaming body api_stream returns a
\* string and the chat command ends by printing it or by reporting that no
\* response was received, never by an uncaught exception; this includes
\* bodies with a chunk that parses to a value that is no object, whose
\* outputs is no sequence, or with an output that is no object.
C27_AggregationTotal ==
    ChatEnded =>
        /\ "text" \in DOMAIN loc
        /\ loc.text.k = "str"
        /\ \A i \in 1..Len(err) : err[i].m # "Traceback"


----------------------------------------------------------------------------
(* Padding of the payload segment. *)

\* the standard base64 padding of a segment of n characters
StandardPadCount(n) == (4 - (n % 4)) % 4

\* C25: a payload segment of n characters is padded with (4 - n mod 4) mod 4
\* "=" characters: the padded length is the least multiple of 4 not less than
\* n, and a segment whose length is a multiple of 4 is left unpadded.
C25_StandardPadding ==
    pc = "decode" =>
        LET n == loc.payload_b64.data
            pad == loc.payload_b64.pad
        IN /\ pad = StandardPadCount(n)
           /\ (n + pad) % 4 = 0
           /\ n + pad < n + 4
           /\ (n % 4 = 0 => pad = 0)


----------------------------------------------------------------------------
(* Two invocations at once. *)

\* the positions of an invocation between its load of the file and its write
RefreshWindow == {"refresh", "exchange_wait", "exchange_done", "reread", "write", "dump"}

\* the positions at which an invocation has sent its token-exchange request
PastExchangeRequest == {"exchange_wait", "exchange_done", "reread", "write", "dump"}

\* C23: nothing serialises load, refresh and persist of two invocations on
\* one credential file: while one is between its load and its write, the
\* other, if it has not ended, can run on; and an invocation presents to the
\* token endpoint the refresh token it loaded, whatever happened to the file
\* since.  (The interleaving in which both present the same refresh token is
\* the state of C23_Witness.)
C23_NothingSerialises ==
    /\ (pc \in RefreshWindow /\ peer.exit = "running") => ENABLED Switch
    /\ pc \in PastExchangeRequest =>
          \E i \in Exchanges : reqs[i].refresh_token = loc.tokens.refresh_token
    /\ peer.pc \in PastExchangeRequest =>
          \E i \in Exchanges : reqs[i].refresh_token = peer.loc.tokens.refresh_token

\* both invocations loaded the same expired bundle and each has presented its
\* refresh token, the one still in the file, to the token endpoint
C23_Witness ==
    /\ pc = "exchange_wait"
    /\ peer.pc = "exchange_wait"
    /\ loc.tokens.refresh_token = peer.loc.tokens.refresh_token
    /\ Len(reqs) = 2
    /\ Exchanges = {1, 2}
    /\ reqs[1].refresh_token = reqs[2].refresh_token
    /\ disk = File(Document(loc.tokens, "user_a"))


\* load_credentials, run by the invocation that is running, reads the file
LoadsFile == pc = "start" /\ pc' # "start" /\ peer' = peer /\ disk.exists

\* C28: an invocation that loads the credential file while another one is
\* persisting its tokens reads a well-formed document, the one before the
\* write or the one after it, never an empty or truncated file.
C28_LoadReadsWholeDocument ==
    [][LoadsFile => HoldsDocument(disk)]_vars

====
